---- MODULE Spec2Model ----
(***************************************************************************)
(* A model of the copy-and-paste lints of rust-clippy (src/src/copies.rs): *)
(* the duplicate search `search_same`, the extractors `if_sequence` and    *)
(* `bindings`, and the three lints that `CopyAndPaste::check_expr` runs on *)
(* every expression the lint framework visits; and of the method lints of  *)
(* src/src/methods.rs (`MethodsPass`).                                     *)
(*                                                                         *)
(* The specifications:                                                     *)
(*   SpecSearch  search_same alone, run statement by statement on every    *)
(*               slice of at most MaxItems items, for every hash function  *)
(*               into NumDigests digests and every outcome of eq.          *)
(*   SpecPerfect search_same on three or more items, for every equivalence *)
(*               relation eq and a hash with one digest per class.         *)
(*   Spec        check_expr applied to every expression of a small program *)
(*               (an if/else-if/else chain or a match).                    *)
(*   SpecArms    lint_match_arms on a match with guards and alternative    *)
(*               patterns, and on the same match without them.             *)
(*   SpecBind    bindings applied to one pattern.                          *)
(*   SpecItem    MethodsPass::check_item on an impl block with one item.   *)
(*   SpecCall    MethodsPass::check_expr on a method call or a chain.      *)
(***************************************************************************)
EXTENDS Integers, Sequences, FiniteSets, TLC

\* ------------------------------------------------------------- bounds
\* Longest slice handed to search_same in SpecSearch.
MaxItems == 4
\* Longest if/else-if chain (number of `if` links) of a program of Spec.
MaxLinks == 3
\* Largest number of arms of a match of a program of Spec.
MaxArms == 3
\* Number of distinct u64 digests the hash closure may return.  The HashMap
\* of search_same only ever tests digests for equality.
NumDigests == 2

Digests == 0 .. (NumDigests - 1)

\* ------------------------------------------------------------ state
VARIABLES
    len,      \* SpecSearch: exprs.len(); the items are exprs[1] .. exprs[len]
    hashOf,   \* SpecSearch: hashOf[k] is what hash(&exprs[k]) returns
    eqOf,     \* SpecSearch: eqOf[<<i, j>>] is what eq(&exprs[i], &exprs[j]) returns
    st,       \* SpecSearch: the running call of search_same
    ast,      \* Spec: the expressions of the program, by node id
    collide,  \* Spec: whether the structural hash sends every fragment to one digest
    todo,     \* Spec: the expressions the lint framework has still to visit
    diags,    \* Spec: the diagnostics emitted so far (span_note_and_lint calls)
    log       \* Spec: the visits, extractions and searches made so far

searchVars == <<len, hashOf, eqOf, st>>
vars == <<len, hashOf, eqOf, st, ast, collide, todo, diags, log>>

\* ------------------------------------------------- search_same (copies.rs)
\* Option<(&T, &T)>: the references are positions in the slice.
None == <<>>
Some(i, j) == <<i, j>>

\* search_same calls eq(o, expr) only with o taken from a bucket, that is with
\* an item of the slice before expr: eq is tabulated on those pairs.
Pairs(n) == {p \in (1 .. n) \X (1 .. n) : p[1] < p[2]}

\* The call frame of search_same at its entry (line 233).  eqCalls and
\* hashCalls log the calls of the two closures, in order.
search_frame ==
    [pc |-> "entry", next |-> 1, map |-> <<>>, result |-> None,
     eqCalls |-> <<>>, hashCalls |-> <<>>]

\* Lines 238-246 without the two-item case: every slice of two or more items
\* goes to the hash-bucket loop.
search_entry_nofast(f, n, eqF) ==
    IF n < 2
    THEN [f EXCEPT !.pc = "done", !.result = None]
    ELSE [f EXCEPT !.pc = "loop", !.map = <<>>, !.next = 1]

\* Lines 238-246 with the first test as `exprs.len() < 1`: a slice of one
\* item goes to the hash-bucket loop.
search_entry_one_to_loop(f, n, eqF) ==
    IF n < 1
    THEN [f EXCEPT !.pc = "done", !.result = None]
    ELSE IF n = 2
    THEN [f EXCEPT !.pc = "done",
                   !.eqCalls = Append(@, <<1, 2>>),
                   !.result = IF eqF[<<1, 2>>] THEN Some(1, 2) ELSE None]
    ELSE [f EXCEPT !.pc = "loop", !.map = <<>>, !.next = 1]

\* Lines 238-248: the common cases, then the empty map.
search_entry(f, n, eqF) ==
    IF n < 2
    THEN [f EXCEPT !.pc = "done", !.result = None]
    ELSE IF n = 2
    THEN [f EXCEPT !.pc = "done",
                   !.eqCalls = Append(@, <<1, 2>>),
                   !.result = IF eqF[<<1, 2>>] THEN Some(1, 2) ELSE None]
    ELSE [f EXCEPT !.pc = "loop", !.map = <<>>, !.next = 1]

\* Lines 253-257: `for o in o.get() { if eq(&o, expr) { return .. } }`.
\* The position in the bucket of the first item eq accepts, 0 when none.
RECURSIVE bucket_scan(_, _, _, _)
bucket_scan(bucket, k, expr, eqF) ==
    IF k > Len(bucket) THEN 0
    ELSE IF eqF[<<bucket[k], expr>>] THEN k
    ELSE bucket_scan(bucket, k + 1, expr, eqF)

\* The eq calls of one scan: the bucket's items up to the first match.
scan_calls(bucket, m, expr) ==
    [k \in 1 .. (IF m = 0 THEN Len(bucket) ELSE m) |-> <<bucket[k], expr>>]

\* The end of an iteration with the loop as `for expr in &exprs[..n - 1]`:
\* the last item is never looked at.
loop_advance_skip_last(f, n) ==
    IF f.next >= n - 1
    THEN [f EXCEPT !.pc = "done", !.result = None, !.next = n + 1]
    ELSE [f EXCEPT !.next = @ + 1]

\* After an iteration without a match: the next item, or line 265.
loop_advance(f, n) ==
    IF f.next = n
    THEN [f EXCEPT !.pc = "done", !.result = None, !.next = n + 1]
    ELSE [f EXCEPT !.next = @ + 1]

\* Line 255 with the pair the wrong way round.
found_swapped(f, o, expr) ==
    [f EXCEPT !.pc = "done", !.result = Some(expr, o)]

\* Line 255: return Some((&o, expr)).
found(f, o, expr) ==
    [f EXCEPT !.pc = "done", !.result = Some(o, expr)]

\* Lines 250-263 without the early return: the first match is kept and
\* returned after the loop has gone through every item.
search_iter_no_stop(f, n, hashF, eqF) ==
    LET expr == f.next
        d == hashF[expr]
        h == [f EXCEPT !.hashCalls = Append(@, expr)]
        bucket == IF d \in DOMAIN f.map THEN f.map[d] ELSE <<>>
        m == bucket_scan(bucket, 1, expr, eqF)
        g == [h EXCEPT !.eqCalls = @ \o scan_calls(bucket, m, expr),
                       !.map = IF d \in DOMAIN f.map THEN @ ELSE (d :> <<expr>>) @@ @,
                       !.result = IF f.result = None /\ m # 0
                                  THEN Some(bucket[m], expr) ELSE @]
    IN  IF f.next = n THEN [g EXCEPT !.pc = "done", !.next = n + 1]
        ELSE [g EXCEPT !.next = @ + 1]

\* Lines 250-263 with `o.get_mut().push(expr)` after the scan of line 253: an
\* item that matches nothing in its bucket is appended to the bucket.
search_iter_push(f, n, hashF, eqF) ==
    LET expr == f.next
        d == hashF[expr]
        h == [f EXCEPT !.hashCalls = Append(@, expr)]
    IN  IF d \in DOMAIN f.map
        THEN LET bucket == f.map[d]
                 m == bucket_scan(bucket, 1, expr, eqF)
                 g == [h EXCEPT !.eqCalls = @ \o scan_calls(bucket, m, expr)]
             IN  IF m # 0 THEN found(g, bucket[m], expr)
                 ELSE loop_advance([g EXCEPT !.map[d] = Append(@, expr)], n)
        ELSE loop_advance([h EXCEPT !.map = (d :> <<expr>>) @@ @], n)

\* Lines 250-263 without line 260: a vacant entry is left vacant.
search_iter_no_insert(f, n, hashF, eqF) ==
    LET expr == f.next
        d == hashF[expr]
        h == [f EXCEPT !.hashCalls = Append(@, expr)]
    IN  IF d \in DOMAIN f.map
        THEN LET bucket == f.map[d]
                 m == bucket_scan(bucket, 1, expr, eqF)
                 g == [h EXCEPT !.eqCalls = @ \o scan_calls(bucket, m, expr)]
             IN  IF m # 0 THEN found(g, bucket[m], expr)
                 ELSE loop_advance(g, n)
        ELSE loop_advance(h, n)

\* Lines 250-263: one iteration of `for expr in exprs`, expr = exprs[f.next].
search_iter(f, n, hashF, eqF) ==
    LET expr == f.next
        d == hashF[expr]
        h == [f EXCEPT !.hashCalls = Append(@, expr)]
    IN  IF d \in DOMAIN f.map
        THEN \* Entry::Occupied: the bucket is scanned and left as it is
             LET bucket == f.map[d]
                 m == bucket_scan(bucket, 1, expr, eqF)
                 g == [h EXCEPT !.eqCalls = @ \o scan_calls(bucket, m, expr)]
             IN  IF m # 0 THEN found(g, bucket[m], expr)
                 ELSE loop_advance(g, n)
        ELSE \* Entry::Vacant: v.insert(vec![expr])
             loop_advance([h EXCEPT !.map = (d :> <<expr>>) @@ @], n)

\* One step of the call: the entry, then one loop iteration at a time.
search_step(f, n, hashF, eqF) ==
    IF f.pc = "entry" THEN search_entry(f, n, eqF)
    ELSE search_iter(f, n, hashF, eqF)

\* The whole call: the frame search_same returns with.
RECURSIVE search_run(_, _, _, _)
search_run(f, n, hashF, eqF) ==
    IF f.pc = "done" THEN f
    ELSE search_run(search_step(f, n, hashF, eqF), n, hashF, eqF)

search_same(n, hashF, eqF) == search_run(search_frame, n, hashF, eqF)

\* Lines 248-265 on their own: the hash-bucket loop run on a slice of any
\* length, the common cases of lines 238-246 left out.
search_loop(n, hashF, eqF) ==
    IF n = 0 THEN [search_frame EXCEPT !.pc = "done", !.result = None]
    ELSE search_run([search_frame EXCEPT !.pc = "loop"], n, hashF, eqF)

\* ------------------------------------------------------ the program
\* An expression is a record of `ast`: its kind (ExprIf, ExprBlock, ExprMatch,
\* or ExprOther for every other kind), its span, whether the span comes from
\* a macro expansion, its parent expression (0: none) and the fields of its
\* kind.  Node ids and spans are positions in source order.  A Block is
\* [span, shape] and an ExprOther carries a shape: two fragments have the
\* same shape exactly when they are the same code up to spans.

\* The ways to give n fragments shapes, up to renaming the shapes: the first
\* fragment has shape 1 and each later one an earlier shape or the next new.
RECURSIVE Shapings(_)
Shapings(n) ==
    LET MaxOf(s) == IF s = <<>> THEN 0
                    ELSE CHOOSE x \in {s[k] : k \in DOMAIN s} :
                             \A k \in DOMAIN s : s[k] <= x
    IN  IF n = 0 THEN {<<>>}
        ELSE UNION {{Append(s, v) : v \in 1 .. (MaxOf(s) + 1)} : s \in Shapings(n - 1)}

IfId(k) == 3 * k - 2
CondId(k) == 3 * k - 1
ThenSpan(k) == 3 * k

\* `if c1 { b1 } else if c2 { b2 } .. [else { b }]` with n links; with no
\* link, a lone block expression (tail) or a lone other expression.
ChainAst(n, tail, cs, bs, mac) ==
    LET ElseId == 3 * n + 1
        ids == {IfId(k) : k \in 1 .. n} \cup {CondId(k) : k \in 1 .. n}
                   \cup (IF tail \/ n = 0 THEN {ElseId} ELSE {})
        node(id) ==
            IF id = ElseId /\ tail
            THEN [kind |-> "ExprBlock", span |-> id, macro |-> id \in mac,
                  parent |-> IF n = 0 THEN 0 ELSE IfId(n),
                  block |-> [span |-> id, shape |-> bs[n + 1]]]
            ELSE IF id = ElseId
            THEN [kind |-> "ExprOther", span |-> id, macro |-> id \in mac,
                  parent |-> 0, shape |-> 1]
            ELSE IF id % 3 = 1
            THEN LET k == (id + 2) \div 3
                 IN  [kind |-> "ExprIf", span |-> id, macro |-> id \in mac,
                      parent |-> IF k = 1 THEN 0 ELSE IfId(k - 1),
                      cond |-> CondId(k),
                      then |-> [span |-> ThenSpan(k), shape |-> bs[k]],
                      els |-> IF k < n THEN IfId(k + 1)
                              ELSE IF tail THEN ElseId ELSE 0]
            ELSE LET k == (id + 1) \div 3
                 IN  [kind |-> "ExprOther", span |-> id, macro |-> FALSE,
                      parent |-> IfId(k), shape |-> cs[k]]
    IN  [id \in ids |-> node(id)]

\* Which expressions of a chain have a span from a macro expansion: none, or
\* one `if` (or the lone expression).
ChainMacroSets(n) ==
    {{}} \cup {{id} : id \in (IF n = 0 THEN {1} ELSE {IfId(k) : k \in 1 .. n})}

\* rustc_front::hir::MatchSource.
MatchSources == {"Normal", "IfLetDesugar", "WhileLetDesugar", "ForLoopDesugar"}

\* Patterns (rustc_front::hir::PatKind).  An Ident pattern carries its name,
\* the type cx.tcx.pat_ty gives it, and its `@` sub-pattern (<<>>: none).
PatWild == [kind |-> "Wild"]
PatIdent(name, ty, sub) == [kind |-> "Ident", name |-> name, ty |-> ty, sub |-> sub]
PatTupleStruct(pats) == [kind |-> "TupleStruct", some |-> TRUE, pats |-> pats]
\* PatKind::TupleStruct(_, None), the pattern `A(..)`.
PatTupleStructNone == [kind |-> "TupleStruct", some |-> FALSE, pats |-> <<>>]
PatBox(pat) == [kind |-> "Box", pat |-> pat]
PatRef(pat) == [kind |-> "Ref", pat |-> pat]
\* PatKind::Struct(_, fields, _): fields holds the pattern of each field.
PatStruct(fields) == [kind |-> "Struct", fields |-> fields]
PatTup(pats) == [kind |-> "Tup", pats |-> pats]
\* PatKind::Vec(lhs, mid, rhs), the slice pattern; mid is <<>> for None.
PatVec(lhs, mid, rhs) == [kind |-> "Vec", lhs |-> lhs, mid |-> mid, rhs |-> rhs]
PatLit == [kind |-> "Lit"]
PatQPath == [kind |-> "QPath"]
PatRange == [kind |-> "Range"]
PatPath == [kind |-> "Path"]

\* The first patterns the arms of a program are drawn from.
ArmPatterns ==
    { PatTupleStruct(<<PatIdent("x", "u32", <<>>)>>),         \* A(x) with x: u32
      PatTupleStruct(<<PatIdent("x", "u64", <<>>)>>),         \* B(x) with x: u64
      PatWild }                                               \* _

\* `match s { p1 => e1, .. }`: the match is node 1, the scrutinee node 2 and
\* the body of arm k node 2 + k.
MatchAst(m, source, pats, bodies, mac) ==
    LET node(id) ==
            IF id = 1
            THEN [kind |-> "ExprMatch", span |-> 1, macro |-> mac, parent |-> 0,
                  scrutinee |-> 2, source |-> source,
                  arms |-> [k \in 1 .. m |->
                               [pats |-> <<pats[k]>>, guard |-> 0, body |-> 2 + k]]]
            ELSE [kind |-> "ExprOther", span |-> id, macro |-> FALSE, parent |-> 1,
                  shape |-> IF id = 2 THEN 0 ELSE bodies[id - 2]]
    IN  [id \in 1 .. (m + 2) |-> node(id)]

\* ------------------------------------------- utils (not in copies.rs)
\* utils::in_macro(cx, span).
in_macro(e) == ast[e].macro

\* utils::get_parent_expr(cx, expr): the id of the parent, 0 for None.
get_parent_expr(e) == ast[e].parent

\* SpanlessHash: the digest of a fragment depends on its structure only.
hash_block(b) == IF collide THEN 0 ELSE b.shape
hash_expr(e) == IF collide THEN 0 ELSE ast[e].shape

\* SpanlessEq: equal structure up to spans.
eq_block(a, b) == a.shape = b.shape
eq_expr(a, b) == ast[a].shape = ast[b].shape

\* utils::span_note_and_lint(cx, lint, span, msg, note_span, note).  The
\* messages are those of the code without their backquotes.
span_note_and_lint(lint, span, msg, note_span, note) ==
    [lint |-> lint, span |-> span, msg |-> msg, note_span |-> note_span, note |-> note]

\* ------------------------------------------------ bindings (copies.rs)
\* HashMap<InternedString, Ty>: a function from the names bound to types.
RECURSIVE bindings_impl(_, _)
RECURSIVE bindings_each(_, _, _)

\* `for pat in pats { bindings_impl(cx, pat, map); }` from position k on.
bindings_each(pats, k, map) ==
    IF k > Len(pats) THEN map
    ELSE bindings_each(pats, k + 1, bindings_impl(pats[k], map))

\* Lines 182-226 with lines 191-193 as `map.insert(name, cx.tcx.pat_ty(pat))`:
\* a later occurrence of a name replaces the type of an earlier one.
bindings_impl_overwrite(pat, map) ==
    CASE pat.kind \in {"Box", "Ref"} -> bindings_impl(pat.pat, map)
      [] pat.kind = "TupleStruct" /\ pat.some -> bindings_each(pat.pats, 1, map)
      [] pat.kind = "Ident" ->
            LET m1 == (pat.name :> pat.ty) @@ map
            IN  IF pat.sub # <<>> THEN bindings_impl(pat.sub[1], m1) ELSE m1
      [] pat.kind = "Struct" -> bindings_each(pat.fields, 1, map)
      [] pat.kind = "Tup" -> bindings_each(pat.pats, 1, map)
      [] pat.kind = "Vec" ->
            LET m1 == bindings_each(pat.lhs, 1, map)
                m2 == IF pat.mid # <<>> THEN bindings_impl(pat.mid[1], m1) ELSE m1
            IN  bindings_each(pat.rhs, 1, m2)
      [] OTHER -> map

\* Lines 182-226 without lines 194-196: the sub-pattern of `name @ pat` is
\* not walked.
bindings_impl_no_as(pat, map) ==
    CASE pat.kind \in {"Box", "Ref"} -> bindings_impl(pat.pat, map)
      [] pat.kind = "TupleStruct" /\ pat.some -> bindings_each(pat.pats, 1, map)
      [] pat.kind = "Ident" ->
            IF pat.name \in DOMAIN map THEN map ELSE (pat.name :> pat.ty) @@ map
      [] pat.kind = "Struct" -> bindings_each(pat.fields, 1, map)
      [] pat.kind = "Tup" -> bindings_each(pat.pats, 1, map)
      [] pat.kind = "Vec" ->
            LET m1 == bindings_each(pat.lhs, 1, map)
                m2 == IF pat.mid # <<>> THEN bindings_impl(pat.mid[1], m1) ELSE m1
            IN  bindings_each(pat.rhs, 1, m2)
      [] OTHER -> map

\* Lines 182-226.
bindings_impl(pat, map) ==
    CASE pat.kind \in {"Box", "Ref"} -> bindings_impl(pat.pat, map)
      [] pat.kind = "TupleStruct" /\ pat.some -> bindings_each(pat.pats, 1, map)
      [] pat.kind = "Ident" ->
            LET m1 == IF pat.name \in DOMAIN map THEN map
                      ELSE (pat.name :> pat.ty) @@ map
            IN  IF pat.sub # <<>> THEN bindings_impl(pat.sub[1], m1) ELSE m1
      [] pat.kind = "Struct" -> bindings_each(pat.fields, 1, map)
      [] pat.kind = "Tup" -> bindings_each(pat.pats, 1, map)
      [] pat.kind = "Vec" ->
            LET m1 == bindings_each(pat.lhs, 1, map)
                m2 == IF pat.mid # <<>> THEN bindings_impl(pat.mid[1], m1) ELSE m1
            IN  bindings_each(pat.rhs, 1, m2)
      [] OTHER -> map

\* Lines 228-230.
bindings(pat) == bindings_impl(pat, <<>>)

\* --------------------------------------------- if_sequence (copies.rs)
\* Lines 159-168: the `while let ExprIf(..) = expr.node` loop; returns the
\* expression the loop ends on and the two lists.
RECURSIVE if_walk(_, _, _)
if_walk(e, conds, blocks) ==
    IF ast[e].kind = "ExprIf"
    THEN LET cs == Append(conds, ast[e].cond)
             bs == Append(blocks, ast[e].then)
         IN  IF ast[e].els # 0 THEN if_walk(ast[e].els, cs, bs)
             ELSE [expr |-> e, conds |-> cs, blocks |-> bs]
    ELSE [expr |-> e, conds |-> conds, blocks |-> blocks]

\* Lines 155-178 without the test of line 171: the block of a block
\* expression is pushed also when the expression is no `if`.
if_sequence_no_empty_test(e) ==
    LET w == if_walk(e, <<>>, <<>>)
    IN  [conds |-> w.conds,
         blocks |-> IF ast[w.expr].kind = "ExprBlock"
                    THEN Append(w.blocks, ast[w.expr].block)
                    ELSE w.blocks]

\* Lines 155-178.
if_sequence(e) ==
    LET w == if_walk(e, <<>>, <<>>)
    IN  [conds |-> w.conds,
         blocks |-> IF w.blocks # <<>> /\ ast[w.expr].kind = "ExprBlock"
                    THEN Append(w.blocks, ast[w.expr].block)
                    ELSE w.blocks]

\* ------------------------------------------------ the lints (copies.rs)
\* What a lint function does: the search it ran, the diagnostics it emitted.
Searched(lint, n, f) == [op |-> "search_same", lint |-> lint, n |-> n, frame |-> f]
Outcome(searches, emitted) == [log |-> searches, diags |-> emitted]

\* Lines 87-104 with the two spans exchanged.
lint_same_then_else_swapped(blocks) ==
    LET n == Len(blocks)
        hashF == [k \in 1 .. n |-> hash_block(blocks[k])]
        eqF == [p \in Pairs(n) |-> eq_block(blocks[p[1]], blocks[p[2]])]
        f == search_same(n, hashF, eqF)
    IN  Outcome(<<Searched("IF_SAME_THEN_ELSE", n, f)>>,
                IF f.result # None
                THEN <<span_note_and_lint("IF_SAME_THEN_ELSE",
                                          blocks[f.result[1]].span,
                                          "this if has identical blocks",
                                          blocks[f.result[2]].span,
                                          "same as this")>>
                ELSE <<>>)

\* Lines 87-104.
lint_same_then_else(blocks) ==
    LET n == Len(blocks)
        hashF == [k \in 1 .. n |-> hash_block(blocks[k])]
        eqF == [p \in Pairs(n) |-> eq_block(blocks[p[1]], blocks[p[2]])]
        f == search_same(n, hashF, eqF)
    IN  Outcome(<<Searched("IF_SAME_THEN_ELSE", n, f)>>,
                IF f.result # None
                THEN <<span_note_and_lint("IF_SAME_THEN_ELSE",
                                          blocks[f.result[2]].span,
                                          "this if has identical blocks",
                                          blocks[f.result[1]].span,
                                          "same as this")>>
                ELSE <<>>)

\* Lines 107-124 reporting under the lint of lint_same_then_else.
lint_same_cond_as_then_else(conds) ==
    LET n == Len(conds)
        hashF == [k \in 1 .. n |-> hash_expr(conds[k])]
        eqF == [p \in Pairs(n) |-> eq_expr(conds[p[1]], conds[p[2]])]
        f == search_same(n, hashF, eqF)
    IN  Outcome(<<Searched("IFS_SAME_COND", n, f)>>,
                IF f.result # None
                THEN <<span_note_and_lint("IF_SAME_THEN_ELSE",
                                          ast[conds[f.result[2]]].span,
                                          "this if has the same condition as a previous if",
                                          ast[conds[f.result[1]]].span,
                                          "same as this")>>
                ELSE <<>>)

\* Lines 107-124.
lint_same_cond(conds) ==
    LET n == Len(conds)
        hashF == [k \in 1 .. n |-> hash_expr(conds[k])]
        eqF == [p \in Pairs(n) |-> eq_expr(conds[p[1]], conds[p[2]])]
        f == search_same(n, hashF, eqF)
    IN  Outcome(<<Searched("IFS_SAME_COND", n, f)>>,
                IF f.result # None
                THEN <<span_note_and_lint("IFS_SAME_COND",
                                          ast[conds[f.result[2]]].span,
                                          "this if has the same condition as a previous if",
                                          ast[conds[f.result[1]]].span,
                                          "same as this")>>
                ELSE <<>>)

\* Lines 128-132: the hash closure of lint_match_arms.
arm_hash(arm) == hash_expr(arm.body)

\* Lines 134-138 without the comparison of the bindings.
arm_eq_bodies_only(lhs, rhs) == eq_expr(lhs.body, rhs.body)

\* Lines 134-138 comparing the bindings of every pattern of the two arms,
\* not of the first only.
arm_eq_all_patterns(lhs, rhs) ==
    /\ eq_expr(lhs.body, rhs.body)
    /\ [i \in DOMAIN lhs.pats |-> bindings(lhs.pats[i])]
           = [i \in DOMAIN rhs.pats |-> bindings(rhs.pats[i])]

\* Lines 134-138: the eq closure of lint_match_arms.
arm_eq(lhs, rhs) ==
    /\ eq_expr(lhs.body, rhs.body)
    /\ bindings(lhs.pats[1]) = bindings(rhs.pats[1])

\* Lines 127-150 with line 140 as `ExprMatch(_, ref arms, _)`: the source of
\* the match is not looked at.
lint_match_arms_any_source(e) ==
    IF ast[e].kind = "ExprMatch"
    THEN LET arms == ast[e].arms
             n == Len(arms)
             hashF == [k \in 1 .. n |-> arm_hash(arms[k])]
             eqF == [p \in Pairs(n) |-> arm_eq(arms[p[1]], arms[p[2]])]
             f == search_same(n, hashF, eqF)
         IN  Outcome(<<Searched("MATCH_SAME_ARMS", n, f)>>,
                     IF f.result # None
                     THEN <<span_note_and_lint("MATCH_SAME_ARMS",
                                               ast[arms[f.result[2]].body].span,
                                               "this match has identical arm bodies",
                                               ast[arms[f.result[1]].body].span,
                                               "same as this")>>
                     ELSE <<>>)
    ELSE Outcome(<<>>, <<>>)

\* Lines 127-150.
lint_match_arms(e) ==
    IF ast[e].kind = "ExprMatch" /\ ast[e].source = "Normal"
    THEN LET arms == ast[e].arms
             n == Len(arms)
             hashF == [k \in 1 .. n |-> arm_hash(arms[k])]
             eqF == [p \in Pairs(n) |-> arm_eq(arms[p[1]], arms[p[2]])]
             f == search_same(n, hashF, eqF)
         IN  Outcome(<<Searched("MATCH_SAME_ARMS", n, f)>>,
                     IF f.result # None
                     THEN <<span_note_and_lint("MATCH_SAME_ARMS",
                                               ast[arms[f.result[2]].body].span,
                                               "this match has identical arm bodies",
                                               ast[arms[f.result[1]].body].span,
                                               "same as this")>>
                     ELSE <<>>)
    ELSE Outcome(<<>>, <<>>)

\* Lines 72-76 never taking the early return.
is_else_never(e) == FALSE

\* Lines 72-76: expr is the else branch of its parent `if`.
is_else_of_parent(e) ==
    LET p == get_parent_expr(e)
    IN  p # 0 /\ ast[p].kind = "ExprIf" /\ ast[p].els # 0 /\ ast[p].els = e

\* Lines 78-81.
scan(e) ==
    LET s == if_sequence(e)
        a == lint_same_then_else(s.blocks)
        b == lint_same_cond(s.conds)
        c == lint_match_arms(e)
    IN  Outcome(<<[op |-> "if_sequence", conds |-> s.conds, blocks |-> s.blocks]>>
                    \o a.log \o b.log \o c.log,
                a.diags \o b.diags \o c.diags)

\* Lines 69-83 without the in_macro test.
check_expr_in_macro_too(e) ==
    IF is_else_of_parent(e) THEN Outcome(<<>>, <<>>) ELSE scan(e)

\* Lines 69-83: CopyAndPaste::check_expr.
check_expr(e) ==
    IF ~in_macro(e)
    THEN IF is_else_of_parent(e) THEN Outcome(<<>>, <<>>)
         ELSE scan(e)
    ELSE Outcome(<<>>, <<>>)

\* Every record of a visit is tagged with the expression visited.
Tagged(e, s) == [k \in DOMAIN s |-> [visit |-> e, entry |-> s[k]]]

\* ------------------------------------------------------- SpecSearch
InitSearch ==
    /\ len \in 0 .. MaxItems
    /\ hashOf \in [1 .. len -> Digests]
    /\ eqOf \in [Pairs(len) -> BOOLEAN]
    /\ st = search_frame
    /\ ast = <<>> /\ collide = FALSE /\ todo = <<>> /\ diags = <<>> /\ log = <<>>

\* search_same's entry: lines 238-248.
SearchEntry ==
    /\ st.pc = "entry"
    /\ st' = search_entry(st, len, eqOf)
    /\ UNCHANGED <<len, hashOf, eqOf>>
    /\ UNCHANGED <<ast, collide, todo, diags, log>>

\* One iteration of the loop of lines 250-263 (and line 265 after the last).
SearchIter ==
    /\ st.pc = "loop"
    /\ st' = search_iter(st, len, hashOf, eqOf)
    /\ UNCHANGED <<len, hashOf, eqOf>>
    /\ UNCHANGED <<ast, collide, todo, diags, log>>

NextSearch == SearchEntry \/ SearchIter

SpecSearch == InitSearch /\ [][NextSearch]_vars

\* ------------------------------------------------------ SpecPerfect
\* search_same on slices of three or more items under a perfect hash: a u64
\* digest for each class of an equivalence relation eq.  With as many digests
\* as items (0 .. MaxItems - 1) every equivalence relation on the slice is
\* drawn.
InitPerfect ==
    /\ len \in 3 .. MaxItems
    /\ hashOf \in [1 .. len -> 0 .. (MaxItems - 1)]
    /\ eqOf = [p \in Pairs(len) |-> hashOf[p[1]] = hashOf[p[2]]]
    /\ st = search_frame
    /\ ast = <<>> /\ collide = FALSE /\ todo = <<>> /\ diags = <<>> /\ log = <<>>

SpecPerfect == InitPerfect /\ [][NextSearch]_vars

Min(S) == CHOOSE x \in S : \A y \in S : x <= y

\* ------------------------------------------------------------- Spec
\* The programs: every chain of at most MaxLinks links, with or without a
\* final else block, and every match of at most MaxArms arms.
InitChain ==
    \E n \in 0 .. MaxLinks, tail \in BOOLEAN :
        \E cs \in Shapings(n), bs \in Shapings(IF tail THEN n + 1 ELSE n),
           mac \in ChainMacroSets(n) :
            ast = ChainAst(n, tail, cs, bs, mac)

InitMatch ==
    \E m \in 0 .. MaxArms, source \in MatchSources, mac \in BOOLEAN :
        \E pats \in [1 .. m -> ArmPatterns], bodies \in Shapings(m) :
            ast = MatchAst(m, source, pats, bodies, mac)

RECURSIVE Ascending(_)
Ascending(S) ==
    IF S = {} THEN <<>>
    ELSE LET x == Min(S) IN <<x>> \o Ascending(S \ {x})

Init ==
    /\ InitChain \/ InitMatch
    /\ collide \in BOOLEAN
    /\ todo = Ascending(DOMAIN ast)
    /\ diags = <<>>
    /\ log = <<>>
    /\ len = 0 /\ hashOf = <<>> /\ eqOf = <<>> /\ st = search_frame

\* The lint framework calls check_expr on the next expression, in source
\* order (LateLintPass::check_expr, lines 69-83).
CheckExpr ==
    /\ todo # <<>>
    /\ LET e == Head(todo)
           out == check_expr(e)
       IN  /\ diags' = diags \o Tagged(e, out.diags)
           /\ log' = log \o Tagged(e, <<[op |-> "check_expr"]>> \o out.log)
    /\ todo' = Tail(todo)
    /\ UNCHANGED <<ast, collide>>
    /\ UNCHANGED searchVars

Next == CheckExpr

Spec == Init /\ [][Next]_vars

\* -------------------------------------------- properties of Spec
Lints == {"IF_SAME_THEN_ELSE", "IFS_SAME_COND", "MATCH_SAME_ARMS"}
Exprs == DOMAIN ast
TraversalDone == todo = <<>> /\ log # <<>>

\* The diagnostics emitted during the visit of e (under one lint).
DiagsOf(e) == {k \in DOMAIN diags : diags[k].visit = e}
DiagsUnder(e, lint) == {k \in DiagsOf(e) : diags[k].entry.lint = lint}
\* The visit of e and what check_expr did in it besides being called.
Visited(e) == \E k \in DOMAIN log : log[k].visit = e
WorkOf(e) == {k \in DOMAIN log : log[k].visit = e /\ log[k].entry.op # "check_expr"}

IsIf(e) == ast[e].kind = "ExprIf"
\* e is the `if` in the else branch of another `if`.
IsNestedIf(e) == IsIf(e) /\ \E p \in Exprs : IsIf(p) /\ ast[p].els = e
\* The blocks and conditions of the chain that starts at the `if` e.
RECURSIVE ChainBlocks(_)
ChainBlocks(e) ==
    IF IsIf(e)
    THEN <<ast[e].then>> \o (IF ast[e].els = 0 THEN <<>> ELSE ChainBlocks(ast[e].els))
    ELSE IF ast[e].kind = "ExprBlock" THEN <<ast[e].block>> ELSE <<>>
RECURSIVE ChainConds(_)
ChainConds(e) ==
    IF IsIf(e)
    THEN <<ast[e].cond>> \o (IF ast[e].els = 0 THEN <<>> ELSE ChainConds(ast[e].els))
    ELSE <<>>
HasRepeat(s, Key(_)) == \E i, j \in DOMAIN s : i < j /\ Key(s[i]) = Key(s[j])
BlockShape(b) == b.shape
CondShape(c) == ast[c].shape

\* C5 as claimed: one visit of check_expr to a chained conditional produces
\* zero or one finding in total.
C5_AtMostOneFindingPerVisit ==
    \A e \in Exprs : IsIf(e) => Cardinality(DiagsOf(e)) <= 1

\* C5 as amended: one visit of check_expr to a chained conditional produces
\* at most one IF_SAME_THEN_ELSE finding and at most one IFS_SAME_COND
\* finding and no other, hence at most two findings in total.
C5_AtMostOneFindingPerLint ==
    \A e \in Exprs :
        IsIf(e) => /\ Cardinality(DiagsUnder(e, "IF_SAME_THEN_ELSE")) <= 1
                   /\ Cardinality(DiagsUnder(e, "IFS_SAME_COND")) <= 1
                   /\ DiagsUnder(e, "MATCH_SAME_ARMS") = {}
                   /\ Cardinality(DiagsOf(e)) <= 2

\* C5's case: the visit of a chain that repeats a condition and a block has
\* emitted a finding for each.
C5_Witness ==
    \E e \in Exprs :
        /\ IsIf(e) /\ Visited(e)
        /\ HasRepeat(ChainBlocks(e), BlockShape) /\ HasRepeat(ChainConds(e), CondShape)
        /\ Cardinality(DiagsUnder(e, "IF_SAME_THEN_ELSE")) = 1
        /\ Cardinality(DiagsUnder(e, "IFS_SAME_COND")) = 1

\* The items a call of search_same hashed or handed to eq.
Examined(f) ==
    {f.hashCalls[k] : k \in DOMAIN f.hashCalls}
        \cup UNION {{f.eqCalls[k][1], f.eqCalls[k][2]} : k \in DOMAIN f.eqCalls}

\* C6: each call of search_same made by a lint returns at most one pair and
\* the lint emits one diagnostic for it and none without it; the search
\* stops at the first match: no item after the pair's later item is hashed or
\* compared.
C6_OnePairFirstMatch ==
    \A k \in DOMAIN log :
        log[k].entry.op = "search_same" =>
            LET f == log[k].entry.frame
                found_ == DiagsUnder(log[k].visit, log[k].entry.lint)
            IN  /\ f.pc = "done"
                /\ Cardinality(found_) = (IF f.result = None THEN 0 ELSE 1)
                /\ f.result # None =>
                       /\ \A x \in Examined(f) : x <= f.result[2]
                       /\ f.next <= f.result[2]

\* C6's case: four blocks in two independent groups of equal blocks, and one
\* diagnostic, for the first group.
C6_Witness ==
    \E k \in DOMAIN log :
        /\ log[k].entry.op = "search_same" /\ log[k].entry.lint = "IF_SAME_THEN_ELSE"
        /\ LET b == ChainBlocks(log[k].visit)
           IN  /\ Len(b) = 4
               /\ b[1].shape = b[2].shape /\ b[3].shape = b[4].shape
               /\ b[1].shape # b[3].shape
        /\ log[k].entry.frame.result = Some(1, 2)
        /\ Cardinality(DiagsUnder(log[k].visit, "IF_SAME_THEN_ELSE")) = 1

\* C7: check_expr returns without extraction or search, and emits nothing,
\* for every `if` that is the else branch of its parent `if`; over the whole
\* traversal no duplicate is reported twice.
C7_NestedElseSkipped ==
    /\ \A e \in Exprs : IsNestedIf(e) => WorkOf(e) = {} /\ DiagsOf(e) = {}
    /\ \A j, k \in DOMAIN diags : diags[j].entry = diags[k].entry => j = k

\* C7's case: every `if` of a three-link chain has been visited, the blocks
\* of the second and third links are equal, and that pair is reported.
C7_Witness ==
    /\ TraversalDone
    /\ \E e \in Exprs :
        /\ IsNestedIf(e) /\ ~ast[e].macro
        /\ ast[e].els # 0 /\ IsNestedIf(ast[e].els)
        /\ ast[e].then.shape = ast[ast[e].els].then.shape
        /\ \E k \in DOMAIN diags :
              /\ diags[k].entry.lint = "IF_SAME_THEN_ELSE"
              /\ diags[k].entry.note_span = ast[e].then.span
              /\ diags[k].entry.span = ast[ast[e].els].then.span

IsNormalMatch(e) == ast[e].kind = "ExprMatch" /\ ast[e].source = "Normal"
BodySpan(arm) == ast[arm.body].span
\* Two arms with structurally equal bodies whose first patterns bind
\* different names or give a name different types.
SameBodyOtherBindings(a, b) ==
    /\ ast[a.body].shape = ast[b.body].shape
    /\ bindings(a.pats[1]) # bindings(b.pats[1])

\* C8: two arms of a match whose bodies are structurally equal but whose
\* patterns yield different binding maps are never reported as a pair.
C8_BindingAwareSuppression ==
    \A e \in Exprs :
        ast[e].kind = "ExprMatch" =>
            \A i, j \in DOMAIN ast[e].arms :
                SameBodyOtherBindings(ast[e].arms[i], ast[e].arms[j]) =>
                    ~\E k \in DOMAIN diags :
                        /\ diags[k].entry.span = BodySpan(ast[e].arms[j])
                        /\ diags[k].entry.note_span = BodySpan(ast[e].arms[i])

\* C8's case: a match of three arms with equal bodies; the second arm binds
\* x at another type than the first and is passed over; the third, with the
\* bindings of the first, is reported.
C8_Witness ==
    /\ TraversalDone
    /\ \E e \in Exprs :
        /\ IsNormalMatch(e) /\ Len(ast[e].arms) = 3
        /\ SameBodyOtherBindings(ast[e].arms[1], ast[e].arms[2])
        /\ DOMAIN bindings(ast[e].arms[1].pats[1]) = DOMAIN bindings(ast[e].arms[2].pats[1])
        /\ \E k \in DOMAIN diags :
              /\ diags[k].entry.lint = "MATCH_SAME_ARMS"
              /\ diags[k].entry.note_span = BodySpan(ast[e].arms[1])
              /\ diags[k].entry.span = BodySpan(ast[e].arms[3])

\* C9: for an expression whose span is inside macro-expanded code check_expr
\* emits nothing and makes no extraction and no search.
C9_MacroExcluded ==
    \A e \in Exprs : ast[e].macro => WorkOf(e) = {} /\ DiagsOf(e) = {}

\* C9's case: `if c { b } else { b }` from a macro expansion has been visited
\* and nothing is reported.
C9_Witness ==
    /\ TraversalDone
    /\ \E e \in Exprs :
        /\ IsIf(e) /\ ast[e].macro /\ ast[e].parent = 0
        /\ Len(ChainBlocks(e)) = 2 /\ HasRepeat(ChainBlocks(e), BlockShape)
    /\ diags = <<>>

\* The spans of the fragments each lint compares.
BlockSpans == {ast[e].then.span : e \in {x \in Exprs : IsIf(x)}}
                 \cup {ast[e].block.span : e \in {x \in Exprs : ast[x].kind = "ExprBlock"}}
CondSpans == {ast[ast[e].cond].span : e \in {x \in Exprs : IsIf(x)}}
ArmBodySpans ==
    UNION {{BodySpan(ast[e].arms[k]) : k \in DOMAIN ast[e].arms} :
              e \in {x \in Exprs : ast[x].kind = "ExprMatch"}}
FragmentSpans(lint) ==
    CASE lint = "IF_SAME_THEN_ELSE" -> BlockSpans
      [] lint = "IFS_SAME_COND" -> CondSpans
      [] lint = "MATCH_SAME_ARMS" -> ArmBodySpans

\* The span of the i-th fragment the lint compares when e is visited.
ItemSpan(e, lint, i) ==
    CASE lint = "IF_SAME_THEN_ELSE" -> ChainBlocks(e)[i].span
      [] lint = "IFS_SAME_COND" -> ast[ChainConds(e)[i]].span
      [] lint = "MATCH_SAME_ARMS" -> BodySpan(ast[e].arms[i])
MessageOf(lint) ==
    CASE lint = "IF_SAME_THEN_ELSE" -> "this if has identical blocks"
      [] lint = "IFS_SAME_COND" -> "this if has the same condition as a previous if"
      [] lint = "MATCH_SAME_ARMS" -> "this match has identical arm bodies"

\* C10: every diagnostic of the three lints is for the pair (i, j) its search
\* returned; its primary span and message are on the later fragment j and its
\* note, `same as this`, on the earlier fragment i; the fragments are blocks,
\* conditions, and arm bodies respectively.
C10_ReportOrientation ==
    \A k \in DOMAIN diags :
        LET d == diags[k].entry
            e == diags[k].visit
        IN  /\ d.lint \in Lints
            /\ d.msg = MessageOf(d.lint)
            /\ d.note = "same as this"
            /\ d.note_span < d.span
            /\ d.span \in FragmentSpans(d.lint)
            /\ d.note_span \in FragmentSpans(d.lint)
            /\ \E c \in DOMAIN log :
                  /\ log[c].visit = e
                  /\ log[c].entry.op = "search_same"
                  /\ log[c].entry.lint = d.lint
                  /\ log[c].entry.frame.result # None
                  /\ d.note_span = ItemSpan(e, d.lint, log[c].entry.frame.result[1])
                  /\ d.span = ItemSpan(e, d.lint, log[c].entry.frame.result[2])

\* C10's case: a pair of equal blocks of a chain of three or more blocks has
\* been reported.
C10_Witness ==
    \E k \in DOMAIN diags :
        diags[k].entry.lint = "IF_SAME_THEN_ELSE" /\ Len(ChainBlocks(diags[k].visit)) >= 3

\* The searches check_expr made for a lint while visiting e.
SearchesUnder(e, lint) ==
    {k \in WorkOf(e) : log[k].entry.op = "search_same" /\ log[k].entry.lint = lint}

\* C11: only for a match expression whose source is MatchSource::Normal does
\* lint_match_arms search the arms or emit MATCH_SAME_ARMS; for a desugared
\* match (for loop, if let, while let) and for an expression that is no match
\* it makes no search and emits nothing.
C11_MatchSourceFilter ==
    \A e \in Exprs :
        ~IsNormalMatch(e) =>
            /\ SearchesUnder(e, "MATCH_SAME_ARMS") = {}
            /\ DiagsUnder(e, "MATCH_SAME_ARMS") = {}

\* C11's case: a desugared match outside macros with two arms of equal bodies
\* and equal bindings has been visited, and nothing is reported.
C11_Witness ==
    /\ TraversalDone
    /\ \E e \in Exprs :
        /\ ast[e].kind = "ExprMatch" /\ ast[e].source # "Normal"
        /\ ~ast[e].macro /\ Visited(e)
        /\ Len(ast[e].arms) = 2
        /\ arm_eq(ast[e].arms[1], ast[e].arms[2])
    /\ diags = <<>>

\* The `if` links of the chain that starts at the `if` e, in source order:
\* e, the `if` of its else branch, and so on.
LinksFrom(e) == {x \in Exprs : IsIf(x) /\ x >= e}
LinkAt(e, i) == CHOOSE x \in LinksFrom(e) : Cardinality({y \in LinksFrom(e) : y < x}) = i - 1
\* The chain from e ends in an unconditional `else { .. }`.
EndsInElseBlock(e) ==
    LET last == LinkAt(e, Cardinality(LinksFrom(e)))
    IN  ast[last].els # 0 /\ ast[ast[last].els].kind = "ExprBlock"
FinalBlock(e) == ast[ast[LinkAt(e, Cardinality(LinksFrom(e)))].els].block
Increasing(s) == \A i, j \in DOMAIN s : i < j => s[i] < s[j]

\* What C23 says if_sequence returns for the expression e.
SequenceAsClaimed(e, s) ==
    IF IsIf(e)
    THEN LET n == Cardinality(LinksFrom(e))
         IN  /\ s.conds = [i \in 1 .. n |-> ast[LinkAt(e, i)].cond]
             /\ SubSeq(s.blocks, 1, n) = [i \in 1 .. n |-> ast[LinkAt(e, i)].then]
             /\ Len(s.blocks) = (IF EndsInElseBlock(e) THEN n + 1 ELSE n)
             /\ EndsInElseBlock(e) => s.blocks[n + 1] = FinalBlock(e)
             /\ Increasing([i \in DOMAIN s.conds |-> ast[s.conds[i]].span])
             /\ Increasing([i \in DOMAIN s.blocks |-> s.blocks[i].span])
             /\ Len(s.blocks) - Len(s.conds) \in {0, 1}
    ELSE s.conds = <<>> /\ s.blocks = <<>>

\* C23: on a chain of n >= 1 `if` links if_sequence returns the n guards and
\* the n then-blocks in source order, followed by the final block exactly
\* when the chain ends in an unconditional else block, so that there are as
\* many blocks as conditions or one more; for an expression that is no `if`,
\* a block expression included, both lists are empty.  This holds of every
\* extraction check_expr made and of every expression of the program.
C23_IfSequence ==
    /\ \A k \in DOMAIN log :
          log[k].entry.op = "if_sequence" => SequenceAsClaimed(log[k].visit, log[k].entry)
    /\ \A e \in Exprs : SequenceAsClaimed(e, if_sequence(e))

\* C23's case: check_expr has extracted two conditions and three blocks from
\* `if c1 { b1 } else if c2 { b2 } else { b3 }`.
C23_Witness ==
    \E k \in DOMAIN log :
        /\ log[k].entry.op = "if_sequence" /\ IsIf(log[k].visit)
        /\ Len(log[k].entry.conds) = 2 /\ Len(log[k].entry.blocks) = 3
        /\ EndsInElseBlock(log[k].visit)

\* --------------------------------------- properties of SpecSearch

\* eq as a relation on positions, read both ways round.
Equivalent(i, j) == i = j \/ eqOf[<<Min({i, j}), Min({i, j} \ {Min({i, j})})>>]

\* eq is an equivalence relation on the items of the slice.
EqIsEquivalence ==
    \A i, j, k \in 1 .. len :
        (Equivalent(i, j) /\ Equivalent(j, k)) => Equivalent(i, k)

\* eq(x, y) implies hash(x) = hash(y); other items may share a digest too.
HashConsistent == \A p \in Pairs(len) : eqOf[p] => hashOf[p[1]] = hashOf[p[2]]

HasLater(i) == \E j \in (i + 1) .. len : eqOf[<<i, j>>]
SomePairEquivalent == \E i \in 1 .. len : HasLater(i)
FirstWithLater == Min({i \in 1 .. len : HasLater(i)})
FirstLaterOf(i) == Min({j \in (i + 1) .. len : eqOf[<<i, j>>]})

Returned == st.pc = "done"

\* C1: for two or more items, an equivalence eq and a hash consistent with
\* it, if some pair of items is equivalent then search_same returns
\* (items[i], items[j]) with i the smallest index that has a later equivalent
\* item and j the smallest index after i equivalent to items[i].
C1_EarliestPair ==
    (Returned /\ len >= 2 /\ EqIsEquivalence /\ HashConsistent /\ SomePairEquivalent)
        => st.result = Some(FirstWithLater, FirstLaterOf(FirstWithLater))

\* C2: for three or more items, an equivalence eq and a hash consistent with
\* it, search_same returns None only if no two items are equivalent, also
\* when an earlier item that is not equivalent shares the pair's digest.
C2_NoneOnlyWithoutDuplicate ==
    (Returned /\ len >= 3 /\ EqIsEquivalence /\ HashConsistent /\ st.result = None)
        => ~SomePairEquivalent

InSeq(x, s) == \E k \in DOMAIN s : s[k] = x

\* C3: whenever search_same returns Some((x, y)), x stands before y in the
\* slice and the call eq(x, y) was made and returned true.
C3_SoundAndOriented ==
    (Returned /\ st.result # None)
        => /\ st.result[1] < st.result[2]
           /\ st.result[2] <= len
           /\ InSeq(st.result, st.eqCalls)
           /\ eqOf[st.result]

\* C3's case: the hash-bucket loop returns a pair although eq is no
\* equivalence relation and the hash is not consistent with it.
C3_Witness ==
    /\ Returned /\ len >= 3 /\ st.result # None
    /\ ~EqIsEquivalence /\ ~HashConsistent

\* C4: on a slice [a, b] search_same returns Some((a, b)) if and only if
\* eq(a, b) is true, otherwise None; it calls eq exactly once, on (a, b), and
\* never calls hash.
C4_TwoItems ==
    (Returned /\ len = 2)
        => /\ st.result = (IF eqOf[<<1, 2>>] THEN Some(1, 2) ELSE None)
           /\ st.eqCalls = << <<1, 2>> >>
           /\ st.hashCalls = <<>>

\* C4's case: two items with different digests that eq accepts.
C4_Witness ==
    /\ Returned /\ len = 2 /\ st.result = Some(1, 2)
    /\ hashOf[1] # hashOf[2]

\* C12: on a slice of no item or one item search_same returns None and calls
\* neither hash nor eq.
C12_ShortSliceNone ==
    (Returned /\ len < 2)
        => /\ st.result = None
           /\ st.eqCalls = <<>>
           /\ st.hashCalls = <<>>

\* C12's case: the call on a slice of one item has returned.
C12_Witness == Returned /\ len = 1 /\ st.next = 1

\* Every item the loop has gone past is stored in the bucket of its digest.
ProcessedAreStored ==
    \A k \in 1 .. (st.next - 1) :
        hashOf[k] \in DOMAIN st.map /\ InSeq(k, st.map[hashOf[k]])

\* C21: in the hash-bucket loop (three or more items) an item that matches
\* nothing in its non-empty bucket is appended to the bucket: after each loop
\* step every item processed so far is stored in the bucket of its digest.
C21_BucketMaintenance ==
    (len >= 3 /\ st.pc \in {"loop", "done"}) => ProcessedAreStored

\* The slice of C22 run through the hash-bucket loop.
GeneralResult == search_loop(len, hashOf, eqOf).result

\* C22 as claimed: for every two-item slice, every hash and every eq the
\* two-item fast path returns what the hash-bucket loop returns on the same
\* two items.
C22_FastPathAgrees ==
    (Returned /\ len = 2) => st.result = GeneralResult

\* C22 as amended: for every two-item slice, every eq and every hash with
\* eq(a, b) => hash(a) = hash(b), the two-item fast path returns what the
\* hash-bucket loop returns on the same two items.
C22_FastPathAgreesConsistentHash ==
    (Returned /\ len = 2 /\ HashConsistent) => st.result = GeneralResult

\* C22's case: two items eq accepts, with one digest; both paths return the
\* pair, the loop after one hash call per item.
C22_Witness ==
    /\ Returned /\ len = 2 /\ eqOf[<<1, 2>>] /\ hashOf[1] = hashOf[2]
    /\ st.result = Some(1, 2) /\ st.hashCalls = <<>>
    /\ search_loop(len, hashOf, eqOf).hashCalls = <<1, 2>>
    /\ GeneralResult = Some(1, 2)

\* The hash is perfect for eq: two items share a digest exactly when eq
\* accepts them.
PerfectHash == \A p \in Pairs(len) : eqOf[p] <=> hashOf[p[1]] = hashOf[p[2]]

\* The items with an earlier equivalent item.
WithEarlier == {j \in 1 .. len : \E i \in 1 .. (j - 1) : Equivalent(i, j)}
FirstEquivalentTo(j) == Min({i \in 1 .. len : Equivalent(i, j)})

\* C26: for three or more items, an equivalence relation eq and a hash
\* perfect for it, search_same returns (items[i], items[j]) with j the
\* smallest index that has an earlier equivalent item and i the smallest
\* index equivalent to items[j], and None when there is no such j.
C26_PerfectHashResult ==
    (Returned /\ len >= 3 /\ EqIsEquivalence /\ PerfectHash)
        => st.result = (IF WithEarlier = {} THEN None
                        ELSE Some(FirstEquivalentTo(Min(WithEarlier)), Min(WithEarlier)))

\* C26's case: four items, the first three in classes of their own and the
\* fourth equivalent to the second.
C26_Witness ==
    /\ Returned /\ len = 4 /\ EqIsEquivalence /\ PerfectHash
    /\ WithEarlier = {4} /\ Equivalent(2, 4)
    /\ st.result = Some(2, 4)

\* The first item of the slice with digest d.
FirstWithDigest(d) == Min({k \in 1 .. len : hashOf[k] = d})
Count(s, P(_)) == Cardinality({k \in DOMAIN s : P(s[k])})

\* C27: in the hash-bucket loop (three or more items) every bucket of the
\* map holds exactly one item, the first item of the slice with that digest;
\* each item is compared by eq with at most one earlier item, hash is called
\* at most once per item and eq at most n - 1 times.
C27_BucketInvariant ==
    (len >= 3 /\ st.pc \in {"loop", "done"})
        => /\ \A d \in DOMAIN st.map : st.map[d] = <<FirstWithDigest(d)>>
           /\ \A j \in 1 .. len :
                 LET IsLater(c) == c[2] = j IN Count(st.eqCalls, IsLater) <= 1
           /\ \A j \in 1 .. len :
                 LET IsJ(x) == x = j IN Count(st.hashCalls, IsJ) <= 1
           /\ Len(st.eqCalls) <= len - 1

\* C27's case: four items with one digest and no two equivalent; the loop
\* has ended with the first item alone in the bucket after three eq calls.
C27_Witness ==
    /\ Returned /\ len = 4 /\ st.result = None
    /\ \A k \in 1 .. len : hashOf[k] = hashOf[1]
    /\ Len(st.eqCalls) = 3 /\ Len(st.hashCalls) = 4
    /\ st.map[hashOf[1]] = <<1>>

\* --------------------------------------------------------- SpecArms
\* lint_match_arms on a match whose arms have guards and alternative
\* patterns (`p | q if g => body`), and again on the same match with the
\* guards and the alternatives after the first pattern taken away.

\* MatchAst with arm k given the alternatives alts[k] after its first
\* pattern and, where guarded[k], the guard expression m + 2 + k.
GuardedMatchAst(m, pats, alts, guarded, bodies) ==
    LET base == MatchAst(m, "Normal", pats, bodies, FALSE)
        guards == {m + 2 + k : k \in {j \in 1 .. m : guarded[j]}}
        node(id) ==
            IF id = 1
            THEN [base[1] EXCEPT !.arms =
                     [k \in 1 .. m |->
                         [pats |-> <<pats[k]>> \o alts[k],
                          guard |-> IF guarded[k] THEN m + 2 + k ELSE 0,
                          body |-> 2 + k]]]
            ELSE IF id \in DOMAIN base THEN base[id]
            ELSE [kind |-> "ExprOther", span |-> id, macro |-> FALSE, parent |-> 1,
                  shape |-> 0]
    IN  [id \in DOMAIN base \cup guards |-> node(id)]

\* The match without its guards and with the first pattern of each arm only.
Unguarded(a) ==
    LET arms == a[1].arms
        m == Len(arms)
    IN  [id \in 1 .. (m + 2) |->
            IF id = 1
            THEN [a[1] EXCEPT !.arms =
                     [k \in 1 .. m |->
                         [pats |-> <<arms[k].pats[1]>>, guard |-> 0,
                          body |-> arms[k].body]]]
            ELSE a[id]]

\* Every match of up to MaxArms arms whose first patterns are A(x) with
\* x: u32 or B(x) with x: u64, each arm with or without the alternative B(x)
\* and with or without a guard.
InitArms ==
    /\ LET FirstPatterns ==
               { PatTupleStruct(<<PatIdent("x", "u32", <<>>)>>),
                 PatTupleStruct(<<PatIdent("x", "u64", <<>>)>>) }
           AlternativeLists ==
               {<<>>, <<PatTupleStruct(<<PatIdent("x", "u64", <<>>)>>)>>}
       IN  \E m \in 0 .. MaxArms :
             \E pats \in [1 .. m -> FirstPatterns], alts \in [1 .. m -> AlternativeLists],
                guarded \in [1 .. m -> BOOLEAN], bodies \in Shapings(m) :
                 ast = GuardedMatchAst(m, pats, alts, guarded, bodies)
    /\ collide = FALSE
    /\ todo = <<1>>
    /\ diags = <<>>
    /\ log = <<>>
    /\ len = 0 /\ hashOf = <<>> /\ eqOf = <<>> /\ st = search_frame

\* lint_match_arms on the match expression (lines 127-150).
LintMatchArms ==
    /\ todo # <<>>
    /\ LET e == Head(todo)
           out == lint_match_arms(e)
       IN  /\ diags' = diags \o Tagged(e, out.diags)
           /\ log' = log \o Tagged(e, out.log)
    /\ todo' = Tail(todo)
    /\ UNCHANGED <<ast, collide>>
    /\ UNCHANGED searchVars

\* The program is edited, guards and further alternatives removed, and
\* linted anew; the report on the program as it was is kept in the log.
RemoveGuardsAndAlternatives ==
    /\ todo = <<>>
    /\ \A k \in DOMAIN log : log[k].entry.op # "edit"
    /\ ast' = Unguarded(ast)
    /\ log' = Append(log, [visit |-> 0,
                           entry |-> [op |-> "edit", was |-> ast, reported |-> diags]])
    /\ diags' = <<>>
    /\ todo' = <<1>>
    /\ UNCHANGED collide
    /\ UNCHANGED searchVars

NextArms == LintMatchArms \/ RemoveGuardsAndAlternatives

SpecArms == InitArms /\ [][NextArms]_vars

\* ----------------------------------------- properties of SpecArms
Edits == {k \in DOMAIN log : log[k].entry.op = "edit"}

\* C28: lint_match_arms decides from the arm bodies and the bindings of each
\* arm's first pattern only: the match with its guards and its alternative
\* patterns after the first gets the report (the same pair, or none) of the
\* match without them, so changing a guard or a later alternative never
\* changes whether a pair is reported or which.
C28_ArmFrame ==
    \A k \in Edits : todo = <<>> => diags = log[k].entry.reported

\* C28's case: a pair of arms is reported although one of them had a guard
\* and an alternative pattern with other bindings than its first pattern, and
\* the same pair is reported once these are removed.
C28_Witness ==
    \E k \in Edits :
        /\ todo = <<>> /\ diags # <<>>
        /\ \E i \in DOMAIN log[k].entry.was[1].arms :
              LET arm == log[k].entry.was[1].arms[i]
              IN  /\ arm.guard # 0 /\ Len(arm.pats) = 2
                  /\ bindings(arm.pats[1]) # bindings(arm.pats[2])
                  /\ diags[1].entry.span = arm.body
                  /\ ast # log[k].entry.was

\* --------------------------------------------------------- SpecBind
\* bindings applied to one pattern.  bindings takes any hir::Pat: the
\* patterns drawn include one name bound twice, at one type or at two (in a
\* compiled program name resolution rejects a name bound twice in one
\* pattern before the lint runs; the function itself does not rely on it).

\* Longest list of sub-patterns of a tuple, tuple-struct or struct pattern.
MaxPats == 2

\* The patterns of lines 219-224.
NoBindingPatterns == {PatTupleStructNone, PatLit, PatQPath, PatRange, PatWild, PatPath}

\* The patterns drawn: the names x and y at the types u32 and u64; patterns
\* without sub-patterns; box p, &p and name @ p around these; tuple,
\* tuple-struct and struct patterns of up to MaxPats sub-patterns; slice
\* patterns; and box, & and @ around a pair.
Patterns ==
    LET BoundNames == {"x", "y"}
        BoundTypes == {"u32", "u64"}
        IdentPatterns == {PatIdent(n, t, <<>>) : n \in BoundNames, t \in BoundTypes}
        AtomPatterns == IdentPatterns \cup NoBindingPatterns
        ElemPatterns == IdentPatterns \cup {PatWild}
        ListsUpTo(E, n) == UNION {[1 .. k -> E] : k \in 0 .. n}
        Wraps(S) ==
            {PatBox(q) : q \in S} \cup {PatRef(q) : q \in S}
                \cup {PatIdent(n, t, <<q>>) : n \in BoundNames, t \in BoundTypes, q \in S}
        ListPatterns ==
            UNION {{PatTupleStruct(l), PatStruct(l), PatTup(l)} :
                      l \in ListsUpTo(ElemPatterns, MaxPats)}
        SlicePatterns ==
            {PatVec(l, m, r) : l \in ListsUpTo(ElemPatterns, 1),
                               m \in ListsUpTo(ElemPatterns, 1),
                               r \in ListsUpTo(ElemPatterns, 1)}
    IN  AtomPatterns \cup Wraps(AtomPatterns) \cup ListPatterns \cup SlicePatterns
            \cup Wraps({PatTup(l) : l \in [1 .. 2 -> IdentPatterns]})

InitBind ==
    /\ ast \in {<<q>> : q \in Patterns}
    /\ todo = <<1>>
    /\ log = <<>> /\ diags = <<>> /\ collide = FALSE
    /\ len = 0 /\ hashOf = <<>> /\ eqOf = <<>> /\ st = search_frame

\* One call of bindings (lines 181-231), as the eq closure of
\* lint_match_arms makes it on the first pattern of an arm (line 137).
Bindings ==
    /\ todo # <<>>
    /\ log' = Append(log, [op |-> "bindings", pat |-> Head(todo),
                           map |-> bindings(ast[Head(todo)])])
    /\ todo' = Tail(todo)
    /\ UNCHANGED <<ast, collide, diags>>
    /\ UNCHANGED searchVars

SpecBind == InitBind /\ [][Bindings]_vars

\* ----------------------------------------- properties of SpecBind
\* The identifier patterns of a pattern in pre-order, left to right: an
\* identifier before its `as` sub-pattern, the leading elements of a slice
\* pattern before its middle before its trailing elements.
RECURSIVE Occurrences(_)
RECURSIVE OccurrencesEach(_)
OccurrencesEach(pats) ==
    IF pats = <<>> THEN <<>>
    ELSE Occurrences(Head(pats)) \o OccurrencesEach(Tail(pats))
Occurrences(pat) ==
    CASE pat.kind = "Ident" -> <<[name |-> pat.name, ty |-> pat.ty]>> \o OccurrencesEach(pat.sub)
      [] pat.kind \in {"Box", "Ref"} -> Occurrences(pat.pat)
      [] pat.kind \in {"TupleStruct", "Tup"} -> OccurrencesEach(pat.pats)
      [] pat.kind = "Struct" -> OccurrencesEach(pat.fields)
      [] pat.kind = "Vec" -> OccurrencesEach(pat.lhs \o pat.mid \o pat.rhs)
      [] pat.kind \in {"Lit", "QPath", "Range", "Wild", "Path"} -> <<>>

FirstOccurrence(occ, name) == Min({i \in DOMAIN occ : occ[i].name = name})
\* Every name of the pattern occurs with one type only.
SingleTyped(occ) == \A i, j \in DOMAIN occ : occ[i].name = occ[j].name => occ[i].ty = occ[j].ty

\* The pattern with its sub-patterns in the opposite order.
RECURSIVE Mirror(_)
MirrorEach(pats) == [i \in DOMAIN pats |-> Mirror(pats[Len(pats) + 1 - i])]
Mirror(pat) ==
    CASE pat.kind = "Ident" -> [pat EXCEPT !.sub = MirrorEach(@)]
      [] pat.kind \in {"Box", "Ref"} -> [pat EXCEPT !.pat = Mirror(@)]
      [] pat.kind \in {"TupleStruct", "Tup"} -> [pat EXCEPT !.pats = MirrorEach(@)]
      [] pat.kind = "Struct" -> [pat EXCEPT !.fields = MirrorEach(@)]
      [] pat.kind = "Vec" ->
            [pat EXCEPT !.lhs = MirrorEach(pat.rhs), !.mid = MirrorEach(@),
                        !.rhs = MirrorEach(pat.lhs)]
      [] OTHER -> pat

BindingsCalls == {k \in DOMAIN log : log[k].op = "bindings"}

\* C24: bindings maps each name to the type of its first occurrence in the
\* pre-order, left-to-right walk of the pattern, and a later occurrence never
\* overwrites it; so when every name occurs with a single type the map gives
\* each name that type wherever it occurs, and the pattern with its
\* sub-patterns in the opposite order yields an equal map.
C24_FirstOccurrenceWins ==
    \A k \in BindingsCalls :
        LET pat == ast[log[k].pat]
            occ == Occurrences(pat)
            m == log[k].map
        IN  /\ \A i \in DOMAIN occ :
                  /\ occ[i].name \in DOMAIN m
                  /\ m[occ[i].name] = occ[FirstOccurrence(occ, occ[i].name)].ty
            /\ SingleTyped(occ) =>
                  /\ \A i \in DOMAIN occ : m[occ[i].name] = occ[i].ty
                  /\ bindings(Mirror(pat)) = m

\* C24's case: `x @ (y, x)` with the first x of one type and the second of
\* another; x has the type of the first.
C24_Witness ==
    \E k \in BindingsCalls :
        LET pat == ast[log[k].pat]
            occ == Occurrences(pat)
        IN  /\ pat.kind = "Ident" /\ Len(occ) = 3
            /\ occ[1].name = occ[3].name /\ occ[1].ty # occ[3].ty
            /\ occ[2].name # occ[1].name
            /\ log[k].map[occ[1].name] = occ[1].ty

\* C25: the keys of bindings(pattern) are exactly the names of the identifier
\* patterns reachable from the root through box, reference, tuple-struct,
\* struct-field, tuple, slice and `as` sub-patterns; literal, wildcard, path,
\* qualified-path and range patterns and a tuple-struct pattern without a
\* sub-pattern list add no entry, and bindings returns a map for each.
C25_KeySet ==
    /\ \A k \in BindingsCalls :
          LET occ == Occurrences(ast[log[k].pat])
          IN  DOMAIN log[k].map = {occ[i].name : i \in DOMAIN occ}
    /\ \A k \in BindingsCalls :
          ast[log[k].pat] \in NoBindingPatterns => log[k].map = <<>>
    /\ todo = <<>> => BindingsCalls # {}

\* C25's case: the slice pattern `[x, y.., _]`; both names are keys.
C25_Witness ==
    \E k \in BindingsCalls :
        LET pat == ast[log[k].pat]
        IN  /\ pat.kind = "Vec" /\ Len(pat.lhs) = 1 /\ Len(pat.mid) = 1
            /\ pat.rhs = <<PatWild>>
            /\ pat.lhs[1].kind = "Ident" /\ pat.mid[1].kind = "Ident"
            /\ DOMAIN log[k].map = {"x", "y"}


\* ===================================================== methods.rs
\* MethodsPass: check_item over one impl block, check_expr over one method
\* call.  Strings stand for interned names; the backquotes of the messages
\* are left out.

\* The declared inputs of a method of the programs, self included.
MaxInputs == 2

\* ---- the HIR the pass reads
SelfStatic == [kind |-> "SelfStatic"]
SelfValue == [kind |-> "SelfValue"]
SelfRegion(mutbl) == [kind |-> "SelfRegion", mutbl |-> mutbl]
SelfExplicit(ty) == [kind |-> "SelfExplicit", ty |-> ty]

TyPath(qself, segments) == [node |-> "TyPath", qself |-> qself, segments |-> segments]
TyRptr(mutbl) == [node |-> "TyRptr", mutbl |-> mutbl]
TyTup(tys) == [node |-> "TyTup", tys |-> tys]

DefaultReturn == [kind |-> "DefaultReturn"]
NoReturn == [kind |-> "NoReturn"]
Return(ty) == [kind |-> "Return", ty |-> ty]

\* utils::span_lint: the diagnostic it hands to the compiler.
span_lint(lint, span, msg) == [lint |-> lint, span |-> span, msg |-> msg]

\* utils::match_path: the path's last segments are the given ones.
match_path(path, segments) ==
    /\ Len(path) >= Len(segments)
    /\ SubSeq(path, Len(path) - Len(segments) + 1, Len(path)) = segments

\* str::starts_with.
starts_with(s, prefix) ==
    Len(s) >= Len(prefix) /\ SubSeq(s, 1, Len(prefix)) = prefix

\* [&str]::join.
RECURSIVE join(_, _)
join(strs, sep) ==
    IF strs = <<>> THEN ""
    ELSE IF Len(strs) = 1 THEN strs[1]
    ELSE strs[1] \o sep \o join(Tail(strs), sep)

\* Lines 592-596 with `is_` allowing self by reference only.
CONVENTIONS_is_ref_only ==
    << <<"into_", <<"ValueSelf">> >>,
       <<"to_", <<"RefSelf">> >>,
       <<"as_", <<"RefSelf", "RefMutSelf">> >>,
       <<"is_", <<"RefSelf">> >>,
       <<"from_", <<"NoSelf">> >> >>

\* Lines 592-596.
CONVENTIONS ==
    << <<"into_", <<"ValueSelf">> >>,
       <<"to_", <<"RefSelf">> >>,
       <<"as_", <<"RefSelf", "RefMutSelf">> >>,
       <<"is_", <<"RefSelf", "NoSelf">> >>,
       <<"from_", <<"NoSelf">> >> >>

\* Lines 598-747: (method_name, n_args, self_kind, out_type, trait_name).
TRAIT_METHODS ==
    <<
       <<"add", 2, "ValueSelf", "AnyType", "std::ops::Add">>,
       <<"sub", 2, "ValueSelf", "AnyType", "std::ops::Sub">>,
       <<"mul", 2, "ValueSelf", "AnyType", "std::ops::Mul">>,
       <<"div", 2, "ValueSelf", "AnyType", "std::ops::Div">>,
       <<"rem", 2, "ValueSelf", "AnyType", "std::ops::Rem">>,
       <<"shl", 2, "ValueSelf", "AnyType", "std::ops::Shl">>,
       <<"shr", 2, "ValueSelf", "AnyType", "std::ops::Shr">>,
       <<"bitand", 2, "ValueSelf", "AnyType", "std::ops::BitAnd">>,
       <<"bitor", 2, "ValueSelf", "AnyType", "std::ops::BitOr">>,
       <<"bitxor", 2, "ValueSelf", "AnyType", "std::ops::BitXor">>,
       <<"neg", 1, "ValueSelf", "AnyType", "std::ops::Neg">>,
       <<"not", 1, "ValueSelf", "AnyType", "std::ops::Not">>,
       <<"drop", 1, "RefMutSelf", "UnitType", "std::ops::Drop">>,
       <<"index", 2, "RefSelf", "RefType", "std::ops::Index">>,
       <<"index_mut", 2, "RefMutSelf", "RefType", "std::ops::IndexMut">>,
       <<"deref", 1, "RefSelf", "RefType", "std::ops::Deref">>,
       <<"deref_mut", 1, "RefMutSelf", "RefType", "std::ops::DerefMut">>,
       <<"clone", 1, "RefSelf", "AnyType", "std::clone::Clone">>,
       <<"borrow", 1, "RefSelf", "RefType", "std::borrow::Borrow">>,
       <<"borrow_mut", 1, "RefMutSelf", "RefType", "std::borrow::BorrowMut">>,
       <<"as_ref", 1, "RefSelf", "RefType", "std::convert::AsRef">>,
       <<"as_mut", 1, "RefMutSelf", "RefType", "std::convert::AsMut">>,
       <<"eq", 2, "RefSelf", "BoolType", "std::cmp::PartialEq">>,
       <<"cmp", 2, "RefSelf", "AnyType", "std::cmp::Ord">>,
       <<"default", 0, "NoSelf", "AnyType", "std::default::Default">>,
       <<"hash", 2, "RefSelf", "UnitType", "std::hash::Hash">>,
       <<"next", 1, "RefMutSelf", "AnyType", "std::iter::Iterator">>,
       <<"into_iter", 1, "ValueSelf", "AnyType", "std::iter::IntoIterator">>,
       <<"from_iter", 1, "NoSelf", "AnyType", "std::iter::FromIterator">>,
       <<"from_str", 1, "NoSelf", "AnyType", "std::str::FromStr">>
    >>

\* Lines 771-780: SelfKind::matches_explicit_type.
matches_explicit_type(self, ty, allow_value_for_ref) ==
    CASE self = "ValueSelf" /\ ty.node = "TyPath" -> TRUE
      [] self = "RefSelf" /\ ty.node = "TyRptr" /\ ty.mutbl = "MutImmutable" -> TRUE
      [] self = "RefMutSelf" /\ ty.node = "TyRptr" /\ ty.mutbl = "MutMutable" -> TRUE
      [] self = "RefSelf" /\ ty.node = "TyPath" -> allow_value_for_ref
      [] self = "RefMutSelf" /\ ty.node = "TyPath" -> allow_value_for_ref
      [] OTHER -> FALSE

\* Lines 758-769 with lines 763-764 returning false: self by value is never
\* taken for self by reference.
SelfKind_matches_strict(self, slf, allow_value_for_ref) ==
    CASE self = "ValueSelf" /\ slf.kind = "SelfValue" -> TRUE
      [] self = "RefSelf" /\ slf.kind = "SelfRegion" /\ slf.mutbl = "MutImmutable" -> TRUE
      [] self = "RefMutSelf" /\ slf.kind = "SelfRegion" /\ slf.mutbl = "MutMutable" -> TRUE
      [] self = "NoSelf" /\ slf.kind = "SelfStatic" -> TRUE
      [] slf.kind = "SelfExplicit" -> matches_explicit_type(self, slf.ty, FALSE)
      [] OTHER -> FALSE

\* Lines 758-769: SelfKind::matches.
SelfKind_matches(self, slf, allow_value_for_ref) ==
    CASE self = "ValueSelf" /\ slf.kind = "SelfValue" -> TRUE
      [] self = "RefSelf" /\ slf.kind = "SelfRegion" /\ slf.mutbl = "MutImmutable" -> TRUE
      [] self = "RefMutSelf" /\ slf.kind = "SelfRegion" /\ slf.mutbl = "MutMutable" -> TRUE
      [] self = "RefSelf" /\ slf.kind = "SelfValue" -> allow_value_for_ref
      [] self = "RefMutSelf" /\ slf.kind = "SelfValue" -> allow_value_for_ref
      [] self = "NoSelf" /\ slf.kind = "SelfStatic" -> TRUE
      [] slf.kind = "SelfExplicit" ->
            matches_explicit_type(self, slf.ty, allow_value_for_ref)
      [] OTHER -> FALSE

\* Lines 782-789: SelfKind::description.
description(self) ==
    CASE self = "ValueSelf" -> "self by value"
      [] self = "RefSelf" -> "self by reference"
      [] self = "RefMutSelf" -> "self by mutable reference"
      [] self = "NoSelf" -> "no self"

\* Lines 819-826.
is_bool(ty) ==
    ty.node = "TyPath" /\ ~ty.qself /\ match_path(ty.segments, <<"bool">>)

\* Lines 801-816 with AnyType matching every `-> T`, the unit type too.
OutType_matches_any_return(self, ty) ==
    CASE self = "UnitType" /\ ty.kind = "DefaultReturn" -> TRUE
      [] self = "UnitType" /\ ty.kind = "Return" /\ ty.ty = TyTup(<<>>) -> TRUE
      [] self = "BoolType" /\ ty.kind = "Return" /\ is_bool(ty.ty) -> TRUE
      [] self = "AnyType" -> TRUE
      [] self = "RefType" /\ ty.kind = "Return" -> ty.ty.node = "TyRptr"
      [] OTHER -> FALSE

\* Lines 801-816: OutType::matches.
OutType_matches(self, ty) ==
    CASE self = "UnitType" /\ ty.kind = "DefaultReturn" -> TRUE
      [] self = "UnitType" /\ ty.kind = "Return" /\ ty.ty = TyTup(<<>>) -> TRUE
      [] self = "BoolType" /\ ty.kind = "Return" /\ is_bool(ty.ty) -> TRUE
      [] self = "AnyType" /\ ty.kind = "Return" /\ ty.ty # TyTup(<<>>) -> TRUE
      [] self = "RefType" /\ ty.kind = "Return" -> ty.ty.node = "TyRptr"
      [] OTHER -> FALSE

\* Lines 828-836: the impl's type is Copy when the type checker has it in
\* its cache and it does not move by default.
is_copy(item) ==
    IF ~item.node.ty.cached THEN FALSE
    ELSE ~item.node.ty.moves_by_default

\* Lines 248-261: the TRAIT_METHODS entries from the k-th on, against the
\* method implitem.
RECURSIVE trait_methods_from(_, _)
trait_methods_from(k, implitem) ==
    IF k > Len(TRAIT_METHODS) THEN <<>>
    ELSE LET method_name == TRAIT_METHODS[k][1]
             n_args == TRAIT_METHODS[k][2]
             self_kind == TRAIT_METHODS[k][3]
             out_type == TRAIT_METHODS[k][4]
             trait_name == TRAIT_METHODS[k][5]
             sig == implitem.node.sig
         IN  (IF /\ implitem.name = method_name
                 /\ Len(sig.decl.inputs) = n_args
                 /\ OutType_matches(out_type, sig.decl.output)
                 /\ SelfKind_matches(self_kind, sig.explicit_self.node, FALSE)
              THEN <<span_lint("SHOULD_IMPLEMENT_TRAIT", implitem.span,
                               "defining a method called " \o implitem.name
                               \o " on this type; consider implementing the "
                               \o trait_name
                               \o " trait or choosing a less ambiguous name")>>
              ELSE <<>>)
             \o trait_methods_from(k + 1, implitem)

\* Lines 278-281: the descriptions of the kinds.
descriptions(self_kinds) == [i \in DOMAIN self_kinds |-> description(self_kinds[i])]

\* Line 266: self_kinds.iter().any(|k| k.matches(.., is_copy)).
any_matches(self_kinds, slf, copy) ==
    \E i \in DOMAIN self_kinds : SelfKind_matches(self_kinds[i], slf, copy)

\* Lines 264-283: the CONVENTIONS entries from the k-th on.
RECURSIVE conventions_from(_, _, _)
conventions_from(k, item, implitem) ==
    IF k > Len(CONVENTIONS) THEN <<>>
    ELSE LET prefix == CONVENTIONS[k][1]
             self_kinds == CONVENTIONS[k][2]
             sig == implitem.node.sig
         IN  (IF /\ starts_with(implitem.name, prefix)
                 /\ ~any_matches(self_kinds, sig.explicit_self.node, is_copy(item))
              THEN LET lint == IF item.vis = "Public"
                               THEN "WRONG_PUB_SELF_CONVENTION"
                               ELSE "WRONG_SELF_CONVENTION"
                   IN  <<span_lint(lint, sig.explicit_self.span,
                                   "methods called " \o prefix \o "* usually take "
                                   \o join(descriptions(self_kinds), " or ")
                                   \o "; consider choosing a less ambiguous name")>>
              ELSE <<>>)
             \o conventions_from(k + 1, item, implitem)

\* Lines 244-285: `for implitem in items`, from the k-th impl item on.
RECURSIVE impl_items_from(_, _)
impl_items_from(k, item) ==
    IF k > Len(item.node.items) THEN <<>>
    ELSE LET implitem == item.node.items[k]
         IN  (IF implitem.node.kind = "Method"
              THEN trait_methods_from(1, implitem)
                   \o conventions_from(1, item, implitem)
              ELSE <<>>)
             \o impl_items_from(k + 1, item)

\* Lines 242-287: MethodsPass::check_item, the diagnostics in their order.
check_item(item) ==
    IF item.node.kind = "ItemImpl" /\ item.node.trait_ref = None
    THEN impl_items_from(1, item)
    ELSE <<>>

\* ---- the impl blocks of the programs
\* The types of the signatures: `()`, `(T, T)`, `bool`, `T`, `&T`.
TyT == TyPath(FALSE, <<"T">>)
Visibilities == {"Public", "Inherited"}

\* `fn name(inputs) output` in an impl; the self argument is one of the inputs.
Method(name, vis, n, slf, output) ==
    [name |-> name, vis |-> vis, span |-> <<"implitem", 1>>,
     node |-> [kind |-> "Method",
               sig |-> [decl |-> [inputs |-> [i \in 1 .. n |-> "arg"],
                                  output |-> output],
                        explicit_self |-> [node |-> slf,
                                           span |-> <<"explicit_self", 1>>]]]]

\* `const NAME: T = ..` in an impl.
AssocConst(name, vis) ==
    [name |-> name, vis |-> vis, span |-> <<"implitem", 1>>,
     node |-> [kind |-> "Const"]]

\* The impl items of the programs: the methods whose name is a name of
\* TRAIT_METHODS, a name with a prefix of CONVENTIONS or a name with none,
\* with every form of self, up to MaxInputs inputs and every form of output,
\* and two associated constants.  A method that takes self has it among its
\* inputs.
ImplItems ==
    LET ReturnTypes ==
            {TyTup(<<>>), TyTup(<<TyT, TyT>>), TyPath(FALSE, <<"bool">>), TyT,
             TyRptr("MutImmutable")}
        \* No `->`, `-> !`, or `-> ty`.
        Outputs == {DefaultReturn, NoReturn} \cup {Return(ty) : ty \in ReturnTypes}
        \* No self, `self`, `&self`, `&mut self`, `self: Box<Self>`,
        \* `self: &Self`, `self: &mut Self`.
        ExplicitSelfs ==
            {SelfStatic, SelfValue, SelfRegion("MutImmutable"), SelfRegion("MutMutable"),
             SelfExplicit(TyPath(FALSE, <<"Box">>)),
             SelfExplicit(TyRptr("MutImmutable")), SelfExplicit(TyRptr("MutMutable"))}
        MethodNames ==
            {TRAIT_METHODS[k][1] : k \in DOMAIN TRAIT_METHODS}
            \cup {"into_u32", "to_something", "as_str", "is_empty", "from_parts",
                  "island", "to", "len"}
        Methods ==
            {Method(name, vis, n, slf, output) :
                name \in MethodNames, vis \in Visibilities, n \in 0 .. MaxInputs,
                slf \in ExplicitSelfs, output \in Outputs}
    IN  {m \in Methods :
            m.node.sig.explicit_self.node # SelfStatic
                => Len(m.node.sig.decl.inputs) >= 1}
        \cup {AssocConst(name, vis) : name \in {"add", "to_something"},
                                      vis \in Visibilities}

\* `impl [Trait for] Ty { implitem }`.  The type checker has converted the
\* self type of every impl before the late lint passes run, so the type is
\* in its cache.
ItemImpl(vis, trait_ref, moves, implitem) ==
    [vis |-> vis,
     node |-> [kind |-> "ItemImpl", trait_ref |-> trait_ref,
               ty |-> [cached |-> TRUE, moves_by_default |-> moves],
               items |-> <<implitem>>]]

\* `fn name() {}` at item level.
ItemFn(vis, name) == [vis |-> vis, node |-> [kind |-> "ItemFn", name |-> name]]

\* --------------------------------------------------------- SpecItem
\* One item: an inherent or a trait impl of one impl item, or a function.
\* rustc refuses a visibility qualifier on an impl (E0449), the HIR can
\* hold one.
InitItem ==
    /\ \/ \E vis \in Visibilities, trait_ref \in {None, <<"std::ops::Mul">>},
             moves \in BOOLEAN, implitem \in ImplItems :
            ast = <<ItemImpl(vis, trait_ref, moves, implitem)>>
       \/ \E vis \in Visibilities, name \in {"add", "to_something"} :
            ast = <<ItemFn(vis, name)>>
    /\ todo = <<1>>
    /\ diags = <<>> /\ log = <<>> /\ collide = FALSE
    /\ len = 0 /\ hashOf = <<>> /\ eqOf = <<>> /\ st = search_frame

\* The lint framework calls check_item on the next item (lines 242-287).
CheckItem ==
    /\ todo # <<>>
    /\ LET e == Head(todo)
       IN  /\ diags' = diags \o Tagged(e, check_item(ast[e]))
           /\ log' = log \o Tagged(e, <<[op |-> "check_item"]>>)
    /\ todo' = Tail(todo)
    /\ UNCHANGED <<ast, collide>>
    /\ UNCHANGED searchVars

SpecItem == InitItem /\ [][CheckItem]_vars

\* ----------------------------------------- properties of SpecItem
InherentImpl(e) == ast[e].node.kind = "ItemImpl" /\ ast[e].node.trait_ref = None
TraitImpl(e) == ast[e].node.kind = "ItemImpl" /\ ast[e].node.trait_ref # None

\* The methods of an impl: positions in its list of impl items.
MethodsOf(e) ==
    IF ast[e].node.kind = "ItemImpl"
    THEN {k \in DOMAIN ast[e].node.items : ast[e].node.items[k].node.kind = "Method"}
    ELSE {}
MethodAt(e, k) == ast[e].node.items[k]
SelfOf(m) == m.node.sig.explicit_self.node
InputsOf(m) == Len(m.node.sig.decl.inputs)
OutputOf(m) == m.node.sig.decl.output

\* How a method takes self: by value, by reference, by mutable reference,
\* or not at all.
TakesSelf(m) ==
    LET slf == SelfOf(m)
    IN  CASE slf.kind = "SelfStatic" -> "none"
          [] slf.kind = "SelfValue" -> "value"
          [] slf.kind = "SelfRegion" ->
                IF slf.mutbl = "MutMutable" THEN "mut ref" ELSE "ref"
          [] slf.kind = "SelfExplicit" ->
                IF slf.ty.node = "TyPath" THEN "value"
                ELSE IF slf.ty.mutbl = "MutMutable" THEN "mut ref" ELSE "ref"

\* What a method returns: nothing (no `->` or `-> ()`), never (`-> !`), a
\* bool, a reference, or another type.
ReturnsOf(m) ==
    LET o == OutputOf(m)
    IN  CASE o.kind = "DefaultReturn" -> "unit"
          [] o.kind = "NoReturn" -> "never"
          [] o.kind = "Return" ->
                CASE o.ty.node = "TyTup" -> IF Len(o.ty.tys) = 0 THEN "unit" ELSE "other"
                  [] o.ty.node = "TyRptr" -> "ref"
                  [] o.ty.node = "TyPath" ->
                        IF o.ty.segments = <<"bool">> THEN "bool" ELSE "other"

\* A TRAIT_METHODS entry read as the claim reads it.
EntrySelf(entry) ==
    CASE entry[3] = "ValueSelf" -> "value"
      [] entry[3] = "RefSelf" -> "ref"
      [] entry[3] = "RefMutSelf" -> "mut ref"
      [] entry[3] = "NoSelf" -> "none"
EntryAccepts(entry, returned) ==
    CASE entry[4] = "UnitType" -> returned = "unit"
      [] entry[4] = "BoolType" -> returned = "bool"
      [] entry[4] = "RefType" -> returned = "ref"
      [] entry[4] = "AnyType" -> returned \in {"bool", "ref", "other"}

SomeEntryFits(m) ==
    \E i \in DOMAIN TRAIT_METHODS :
        /\ TRAIT_METHODS[i][1] = m.name
        /\ TRAIT_METHODS[i][2] = InputsOf(m)
        /\ EntryAccepts(TRAIT_METHODS[i], ReturnsOf(m))
        /\ EntrySelf(TRAIT_METHODS[i]) = TakesSelf(m)

TraitDiags(e, k) ==
    {d \in DiagsOf(e) : /\ diags[d].entry.lint = "SHOULD_IMPLEMENT_TRAIT"
                        /\ diags[d].entry.span = MethodAt(e, k).span}

\* The methods of `impl T` in tests/compile-fail/methods.rs, lines 12-17.
IsSignature(m, name, slf, n, output) ==
    m.name = name /\ SelfOf(m) = slf /\ InputsOf(m) = n /\ OutputOf(m) = output
TestAdd(m) == IsSignature(m, "add", SelfValue, 2, Return(TyT))
TestDrop(m) == IsSignature(m, "drop", SelfRegion("MutMutable"), 1, DefaultReturn)
TestSub(m) ==
    IsSignature(m, "sub", SelfRegion("MutImmutable"), 2, Return(TyRptr("MutImmutable")))
TestDiv(m) == IsSignature(m, "div", SelfValue, 1, Return(TyT))
TestRem(m) == IsSignature(m, "rem", SelfValue, 2, DefaultReturn)

Prefixes == {"as_", "from_", "into_", "is_", "to_"}
AllowedSelf(prefix) ==
    CASE prefix = "as_" -> {"ref", "mut ref"}
      [] prefix = "from_" -> {"none"}
      [] prefix = "into_" -> {"value"}
      [] prefix = "is_" -> {"ref", "none"}
      [] prefix = "to_" -> {"ref"}

BreaksConvention(m) ==
    \E prefix \in Prefixes :
        starts_with(m.name, prefix) /\ TakesSelf(m) \notin AllowedSelf(prefix)

ConventionLints == {"WRONG_SELF_CONVENTION", "WRONG_PUB_SELF_CONVENTION"}
ConventionDiags(e, k, lints) ==
    {d \in DiagsOf(e) :
        /\ diags[d].entry.lint \in lints
        /\ diags[d].entry.span = MethodAt(e, k).node.sig.explicit_self.span}

TypeIsCopy(e) == ~ast[e].node.ty.moves_by_default

\* C14: after check_item, a method of an inherent impl on a type that is not
\* Copy has a wrong-self-convention diagnostic if and only if its name starts
\* with one of the prefixes and it takes self in a way the prefix does not
\* allow: as_ allows &self and &mut self, from_ no self, into_ self by value,
\* is_ &self and no self, to_ &self.
C14_SelfConventionTable ==
    TraversalDone =>
        \A e \in Exprs : \A k \in MethodsOf(e) :
            (InherentImpl(e) /\ ~TypeIsCopy(e)) =>
                (ConventionDiags(e, k, ConventionLints) # {}
                    <=> BreaksConvention(MethodAt(e, k)))

\* C14's case: on a type that is not Copy `fn to_something(self)` has its
\* diagnostic, with the message of the test.
C14_Witness ==
    /\ TraversalDone
    /\ \E e \in Exprs : \E k \in MethodsOf(e) :
        /\ InherentImpl(e) /\ ~TypeIsCopy(e)
        /\ MethodAt(e, k).name = "to_something" /\ TakesSelf(MethodAt(e, k)) = "value"
        /\ \E d \in ConventionDiags(e, k, ConventionLints) :
              diags[d].entry.msg =
                "methods called to_* usually take self by reference; consider choosing a less ambiguous name"

\* C15: a method declared `pub fn` that breaks the self convention is
\* reported under WRONG_PUB_SELF_CONVENTION and not under
\* WRONG_SELF_CONVENTION; one that is not public is reported under
\* WRONG_SELF_CONVENTION.
C15_PubMethodUnderPubLint ==
    TraversalDone =>
        \A e \in Exprs : \A k \in MethodsOf(e) :
            (InherentImpl(e) /\ ConventionDiags(e, k, ConventionLints) # {}) =>
                IF MethodAt(e, k).vis = "Public"
                THEN /\ ConventionDiags(e, k, {"WRONG_PUB_SELF_CONVENTION"}) # {}
                     /\ ConventionDiags(e, k, {"WRONG_SELF_CONVENTION"}) = {}
                ELSE ConventionDiags(e, k, {"WRONG_SELF_CONVENTION"}) # {}

\* C16: on a Copy type a method that takes self by value has no diagnostic
\* when its prefix is to_, as_ or is_, and still has one when its prefix is
\* from_; a method into_ that takes &self still has one.
C16_CopyExemption ==
    TraversalDone =>
        \A e \in Exprs : \A k \in MethodsOf(e) :
            LET m == MethodAt(e, k)
                flagged == ConventionDiags(e, k, ConventionLints) # {}
            IN  (InherentImpl(e) /\ TypeIsCopy(e)) =>
                    /\ (TakesSelf(m) = "value" /\
                        \E prefix \in {"to_", "as_", "is_"} : starts_with(m.name, prefix))
                            => ~flagged
                    /\ (TakesSelf(m) = "value" /\ starts_with(m.name, "from_")) => flagged
                    /\ (TakesSelf(m) = "ref" /\ starts_with(m.name, "into_")) => flagged

\* C16's case: `fn to_something(self)` of an impl on a Copy type has been
\* checked and nothing is reported.
C16_Witness ==
    /\ TraversalDone
    /\ \E e \in Exprs : \E k \in MethodsOf(e) :
        /\ InherentImpl(e) /\ TypeIsCopy(e)
        /\ MethodAt(e, k).name = "to_something" /\ SelfOf(MethodAt(e, k)) = SelfValue
    /\ diags = <<>>

\* ------------------------------------------ methods.rs: check_expr
\* An expression is a record [node, span, ty, callee_trait]: ty is the type
\* the type checker gives it (tcx.expr_ty), callee_trait the trait of the
\* method a method call resolves to (None for an inherent method).  A span
\* is [at, expn_id, snippet], snippet None or <<the lines of its text>>.

\* ---- the types of rustc::middle::ty the pass reads
\* An impl of a trait for a type; has_params: the impl's self type has type
\* parameters (ty::TypeFlags::HAS_PARAMS).
TraitImplOf(trait, has_params) == [trait |-> trait, has_params |-> has_params]
TyStr == [sty |-> "TyStr", path |-> <<>>, substs |-> <<>>, impls |-> {}]
TyRef(ty) == [sty |-> "TyRef", path |-> <<>>, substs |-> <<>>, impls |-> {}, ty |-> ty]
TyEnum(path, substs, impls) ==
    [sty |-> "TyEnum", path |-> path, substs |-> substs, impls |-> impls]
TyStruct(path, substs, impls) ==
    [sty |-> "TyStruct", path |-> path, substs |-> substs, impls |-> impls]

\* utils: the paths of the items the lints look for.
DEFAULT_TRAIT_PATH == <<"core", "default", "Default">>
OPTION_PATH == <<"core", "option", "Option">>
RESULT_PATH == <<"core", "result", "Result">>
STRING_PATH == <<"collections", "string", "String">>
ITERATOR_PATH == <<"core", "iter", "Iterator">>
DEBUG_TRAIT_PATH == <<"core", "fmt", "Debug">>

\* utils::match_type: an enum or a struct with the given definition path.
match_type(ty, path) == ty.sty \in {"TyEnum", "TyStruct"} /\ ty.path = path

\* utils::walk_ptrs_ty_depth: the type under its references, and their number.
RECURSIVE walk_ptrs_ty_depth(_)
walk_ptrs_ty_depth(ty) ==
    IF ty.sty = "TyRef"
    THEN LET r == walk_ptrs_ty_depth(ty.ty) IN <<r[1], r[2] + 1>>
    ELSE <<ty, 0>>

\* utils::walk_ptrs_ty.
walk_ptrs_ty(ty) == walk_ptrs_ty_depth(ty)[1]

\* utils::get_trait_def_id: the traits of core are always found.
get_trait_def_id(path) ==
    IF path \in {DEFAULT_TRAIT_PATH, ITERATOR_PATH, DEBUG_TRAIT_PATH}
    THEN <<path>> ELSE None

\* utils::implements_trait.
implements_trait(ty, trait_id) == \E i \in ty.impls : i.trait = trait_id

\* utils::match_trait_method: the method the call resolves to is an item of
\* the trait.
match_trait_method(expr, path) == expr.callee_trait = <<path>>

\* utils::snippet: the text of the span, or the default.
snippet(span, default) ==
    IF span.snippet = None THEN <<default>> ELSE span.snippet[1]

\* str::lines().count().
lines_count(text) == Len(text)

\* The text in a format string: its lines, with a line feed between them.
display(text) == join(text, "\n")

\* DiagnosticBuilder::span_suggestion on the diagnostic of span_lint.
span_suggestion(diag, span, msg, suggestion) ==
    [lint |-> diag.lint, span |-> diag.span, msg |-> diag.msg,
     help_span |-> span, help |-> msg, suggestion |-> suggestion]

\* utils::span_note_and_lint is modelled above (copies.rs uses it too).

\* utils::method_chain_args: walks from the last method of the chain to the
\* first; matched is built up backwards.
RECURSIVE chain_args_from(_, _, _, _)
chain_args_from(current, methods, k, matched) ==
    IF k = 0 THEN matched
    ELSE IF current.node.kind = "ExprMethodCall" /\ current.node.name = methods[k]
    THEN chain_args_from(current.node.args[1], methods, k - 1,
                         <<current.node.args>> \o matched)
    ELSE None

method_chain_args(expr, methods) == chain_args_from(expr, methods, Len(methods), <<>>)

\* What a lint function leaves: its diagnostics, or a panic of the compiler.
Emitted(ds) == [diags |-> ds, panicked |-> FALSE]
Panicked == [diags |-> <<>>, panicked |-> TRUE]

\* ---- the lint functions
\* iter::repeat(c).take(n).collect::<String>().
RECURSIVE repeat(_, _)
repeat(c, n) == IF n <= 0 THEN "" ELSE c \o repeat(c, n - 1)

\* Lines 386-407; the line break inside the message is left out.
lint_unwrap(expr, unwrap_args) ==
    LET obj_ty == walk_ptrs_ty_depth(unwrap_args[1].ty)[1]
    IN  IF match_type(obj_ty, OPTION_PATH)
        THEN <<span_lint("OPTION_UNWRAP_USED", expr.span,
                         "used unwrap() on an Option value. If you don't want to handle the None case gracefully, consider using expect() to provide a better panic message")>>
        ELSE IF match_type(obj_ty, RESULT_PATH)
        THEN <<span_lint("RESULT_UNWRAP_USED", expr.span,
                         "used unwrap() on a Result value. If you don't want to handle the Err case gracefully, consider using expect() to provide a better panic message")>>
        ELSE <<>>

\* Lines 412-427 with line 418 taking ptr_depth stars.
lint_to_string_one_star_more(expr, to_string_args) ==
    LET w == walk_ptrs_ty_depth(to_string_args[1].ty)
        obj_ty == w[1]
        ptr_depth == w[2]
    IN  IF obj_ty.sty = "TyStr"
        THEN LET arg_str == display(snippet(to_string_args[1].span, "_"))
                 arg == IF ptr_depth > 1
                        THEN "(" \o repeat("*", ptr_depth) \o arg_str \o ")"
                        ELSE arg_str
             IN  <<span_lint("STR_TO_STRING", expr.span, arg \o ".to_owned() is faster")>>
        ELSE IF match_type(obj_ty, STRING_PATH)
        THEN <<span_lint("STRING_TO_STRING", expr.span,
                         "String.to_string() is a no-op; use clone() to make a copy")>>
        ELSE <<>>

\* Lines 412-427.
lint_to_string(expr, to_string_args) ==
    LET w == walk_ptrs_ty_depth(to_string_args[1].ty)
        obj_ty == w[1]
        ptr_depth == w[2]
    IN  IF obj_ty.sty = "TyStr"
        THEN LET arg_str == display(snippet(to_string_args[1].span, "_"))
                 arg == IF ptr_depth > 1
                        THEN "(" \o repeat("*", ptr_depth - 1) \o arg_str \o ")"
                        ELSE arg_str
             IN  <<span_lint("STR_TO_STRING", expr.span, arg \o ".to_owned() is faster")>>
        ELSE IF match_type(obj_ty, STRING_PATH)
        THEN <<span_lint("STRING_TO_STRING", expr.span,
                         "String.to_string() is a no-op; use clone() to make a copy")>>
        ELSE <<>>

\* Lines 558-568: the error type of a Result, None for another type.
get_error_type(ty) ==
    IF ~match_type(ty, RESULT_PATH) THEN None
    ELSE IF ty.sty = "TyEnum" /\ Len(ty.substs) >= 2 THEN <<ty.substs[2]>>
    ELSE None

\* Lines 573-590: some impl of Debug for the type under the references has
\* a self type without type parameters.
has_debug_impl(ty) ==
    LET no_ref_ty == walk_ptrs_ty(ty)
    IN  \E d \in no_ref_ty.impls : d.trait = DEBUG_TRAIT_PATH /\ ~d.has_params

\* Lines 432-445.
lint_ok_expect(expr, ok_args) ==
    IF match_type(ok_args[1].ty, RESULT_PATH)
    THEN LET error_type == get_error_type(ok_args[1].ty)
         IN  IF error_type # None /\ has_debug_impl(error_type[1])
             THEN <<span_lint("OK_EXPECT", expr.span,
                              "called ok().expect() on a Result value. You can call expect directly on the Result")>>
             ELSE <<>>
    ELSE <<>>

\* Lines 450-476 with same_span taken for true.
lint_map_unwrap_or_any_span(expr, map_args, unwrap_args) ==
    IF match_type(map_args[1].ty, OPTION_PATH)
    THEN LET msg == "called map(f).unwrap_or(a) on an Option value. This can be done more directly by calling map_or(a, f) instead"
             map_snippet == snippet(map_args[2].span, "..")
             unwrap_snippet == snippet(unwrap_args[2].span, "..")
             multiline == lines_count(map_snippet) > 1 \/ lines_count(unwrap_snippet) > 1
             same_span == TRUE
         IN  IF same_span /\ ~multiline
             THEN <<span_note_and_lint("OPTION_MAP_UNWRAP_OR", expr.span, msg, expr.span,
                        "replace map(" \o display(map_snippet) \o ").unwrap_or(" \o display(unwrap_snippet)
                        \o ") with map_or(" \o display(unwrap_snippet) \o ", " \o display(map_snippet) \o ")")>>
             ELSE IF same_span /\ multiline
             THEN <<span_lint("OPTION_MAP_UNWRAP_OR", expr.span, msg)>>
             ELSE <<>>
    ELSE <<>>

\* Lines 450-476.
lint_map_unwrap_or(expr, map_args, unwrap_args) ==
    IF match_type(map_args[1].ty, OPTION_PATH)
    THEN LET msg == "called map(f).unwrap_or(a) on an Option value. This can be done more directly by calling map_or(a, f) instead"
             map_snippet == snippet(map_args[2].span, "..")
             unwrap_snippet == snippet(unwrap_args[2].span, "..")
             multiline == lines_count(map_snippet) > 1 \/ lines_count(unwrap_snippet) > 1
             same_span == map_args[2].span.expn_id = unwrap_args[2].span.expn_id
         IN  IF same_span /\ ~multiline
             THEN <<span_note_and_lint("OPTION_MAP_UNWRAP_OR", expr.span, msg, expr.span,
                        "replace map(" \o display(map_snippet) \o ").unwrap_or(" \o display(unwrap_snippet)
                        \o ") with map_or(" \o display(unwrap_snippet) \o ", " \o display(map_snippet) \o ")")>>
             ELSE IF same_span /\ multiline
             THEN <<span_lint("OPTION_MAP_UNWRAP_OR", expr.span, msg)>>
             ELSE <<>>
    ELSE <<>>

\* Lines 481-507.
lint_map_unwrap_or_else(expr, map_args, unwrap_args) ==
    IF match_type(map_args[1].ty, OPTION_PATH)
    THEN LET msg == "called map(f).unwrap_or_else(g) on an Option value. This can be done more directly by calling map_or_else(g, f) instead"
             map_snippet == snippet(map_args[2].span, "..")
             unwrap_snippet == snippet(unwrap_args[2].span, "..")
             multiline == lines_count(map_snippet) > 1 \/ lines_count(unwrap_snippet) > 1
             same_span == map_args[2].span.expn_id = unwrap_args[2].span.expn_id
         IN  IF same_span /\ ~multiline
             THEN <<span_note_and_lint("OPTION_MAP_UNWRAP_OR_ELSE", expr.span, msg, expr.span,
                        "replace map(" \o display(map_snippet) \o ").unwrap_or_else(" \o display(unwrap_snippet)
                        \o ") with with map_or_else(" \o display(unwrap_snippet) \o ", " \o display(map_snippet) \o ")")>>
             ELSE IF same_span /\ multiline
             THEN <<span_lint("OPTION_MAP_UNWRAP_OR_ELSE", expr.span, msg)>>
             ELSE <<>>
    ELSE <<>>

\* Lines 512-530.  expr is the call of next; filter_args[1] is read without
\* a test of the length.
lint_filter_next(expr, filter_args) ==
    IF match_trait_method(expr, ITERATOR_PATH)
    THEN LET msg == "called filter(p).next() on an Iterator. This is more succinctly expressed by calling .find(p) instead."
         IN  IF Len(filter_args) < 2 THEN Panicked
             ELSE LET filter_snippet == snippet(filter_args[2].span, "..")
                  IN  IF lines_count(filter_snippet) <= 1
                      THEN Emitted(<<span_note_and_lint("FILTER_NEXT", expr.span, msg, expr.span,
                                        "replace filter(" \o display(filter_snippet)
                                        \o ").next() with find(" \o display(filter_snippet) \o ")")>>)
                      ELSE Emitted(<<span_lint("FILTER_NEXT", expr.span, msg)>>)
    ELSE Emitted(<<>>)

\* Lines 535-555.  is_some_args[1] is the call of the search method.
lint_search_is_some(expr, search_method, search_args, is_some_args) ==
    IF match_trait_method(is_some_args[1], ITERATOR_PATH)
    THEN LET msg == "called is_some() after searching an iterator with " \o search_method
                    \o ". This is more succinctly expressed by calling any()."
         IN  IF Len(search_args) < 2 THEN Panicked
             ELSE LET search_snippet == snippet(search_args[2].span, "..")
                  IN  IF lines_count(search_snippet) <= 1
                      THEN Emitted(<<span_note_and_lint("SEARCH_IS_SOME", expr.span, msg, expr.span,
                                        "replace " \o search_method \o "(" \o display(search_snippet)
                                        \o ").is_some() with any(" \o display(search_snippet) \o ")")>>)
                      ELSE Emitted(<<span_lint("SEARCH_IS_SOME", expr.span, msg)>>)
    ELSE Emitted(<<>>)

\* Lines 293-334: check_unwrap_or_default.  It returns true exactly when it
\* has emitted its diagnostic: the sequence returned here is then not empty.
check_unwrap_or_default(name, fun, self_expr, arg, or_has_args, span) ==
    IF or_has_args THEN <<>>
    ELSE IF name = "unwrap_or" /\ fun.node.kind = "ExprPath"
    THEN LET path == fun.node.segments[Len(fun.node.segments)]
         IN  IF path \in {"default", "new"}
             THEN LET arg_ty == arg.ty
                      default_trait_id == get_trait_def_id(DEFAULT_TRAIT_PATH)
                  IN  IF default_trait_id = None THEN <<>>
                      ELSE IF implements_trait(arg_ty, default_trait_id[1])
                      THEN <<span_suggestion(
                                span_lint("OR_FUN_CALL", span,
                                          "use of " \o name \o " followed by a call to " \o path),
                                span, "try this",
                                display(snippet(self_expr.span, "_")) \o ".unwrap_or_default()")>>
                      ELSE <<>>
             ELSE <<>>
    ELSE <<>>

\* Lines 337-371: check_general_case.
check_general_case(name, fun, self_expr, arg, or_has_args, span) ==
    LET self_ty == self_expr.ty
    IN  IF ~match_type(self_ty, RESULT_PATH) /\ ~match_type(self_ty, OPTION_PATH)
        THEN <<>>
        ELSE LET is_result == match_type(self_ty, RESULT_PATH)
                 sugg == IF is_result THEN "|_| " \o display(snippet(arg.span, ".."))
                         ELSE IF or_has_args THEN "|| " \o display(snippet(arg.span, ".."))
                         ELSE display(snippet(fun.span, ".."))
             IN  <<span_suggestion(
                     span_lint("OR_FUN_CALL", span,
                               "use of " \o name \o " followed by a function call"),
                     span, "try this",
                     display(snippet(self_expr.span, "_")) \o "." \o name
                         \o "_else(" \o sugg \o ")")>>

\* Lines 373-380 with the general case checked whatever
\* check_unwrap_or_default returned.
lint_or_fun_call_both(expr, name, args) ==
    IF Len(args) = 2 /\ name \in {"map_or", "ok_or", "or", "unwrap_or"}
    THEN IF args[2].node.kind = "ExprCall"
         THEN LET fun == args[2].node.fun
                  or_has_args == args[2].node.args # <<>>
                  d == check_unwrap_or_default(name, fun, args[1], args[2],
                                               or_has_args, expr.span)
              IN  IF TRUE
                  THEN d \o check_general_case(name, fun, args[1], args[2],
                                               or_has_args, expr.span)
                  ELSE d
         ELSE <<>>
    ELSE <<>>

\* Lines 373-380 with the first test as `args.len() >= 2`.
lint_or_fun_call_two_or_more(expr, name, args) ==
    IF Len(args) >= 2 /\ name \in {"map_or", "ok_or", "or", "unwrap_or"}
    THEN IF args[2].node.kind = "ExprCall"
         THEN LET fun == args[2].node.fun
                  or_has_args == args[2].node.args # <<>>
                  d == check_unwrap_or_default(name, fun, args[1], args[2],
                                               or_has_args, expr.span)
              IN  IF d = <<>>
                  THEN d \o check_general_case(name, fun, args[1], args[2],
                                               or_has_args, expr.span)
                  ELSE d
         ELSE <<>>
    ELSE <<>>

\* Lines 291-381: lint_or_fun_call.
lint_or_fun_call(expr, name, args) ==
    IF Len(args) = 2 /\ name \in {"map_or", "ok_or", "or", "unwrap_or"}
    THEN IF args[2].node.kind = "ExprCall"
         THEN LET fun == args[2].node.fun
                  or_has_args == args[2].node.args # <<>>
                  d == check_unwrap_or_default(name, fun, args[1], args[2],
                                               or_has_args, expr.span)
              IN  IF d = <<>>
                  THEN d \o check_general_case(name, fun, args[1], args[2],
                                               or_has_args, expr.span)
                  ELSE d
         ELSE <<>>
    ELSE <<>>

\* Lines 199-211: MethodsPass::get_lints, the lint_array! of the pass.
get_lints ==
    {"OPTION_UNWRAP_USED", "RESULT_UNWRAP_USED", "STR_TO_STRING", "STRING_TO_STRING",
     "SHOULD_IMPLEMENT_TRAIT", "WRONG_SELF_CONVENTION", "WRONG_PUB_SELF_CONVENTION",
     "OK_EXPECT", "OPTION_MAP_UNWRAP_OR", "OPTION_MAP_UNWRAP_OR_ELSE", "OR_FUN_CALL"}

\* Lines 218-236: the chain lints, the first chain that matches.
chain_lints(expr) ==
    LET chain(methods) == method_chain_args(expr, methods)
    IN  IF chain(<<"unwrap">>) # None
        THEN Emitted(lint_unwrap(expr, chain(<<"unwrap">>)[1]))
        ELSE IF chain(<<"to_string">>) # None
        THEN Emitted(lint_to_string(expr, chain(<<"to_string">>)[1]))
        ELSE IF chain(<<"ok", "expect">>) # None
        THEN Emitted(lint_ok_expect(expr, chain(<<"ok", "expect">>)[1]))
        ELSE IF chain(<<"map", "unwrap_or">>) # None
        THEN Emitted(lint_map_unwrap_or(expr, chain(<<"map", "unwrap_or">>)[1],
                                        chain(<<"map", "unwrap_or">>)[2]))
        ELSE IF chain(<<"map", "unwrap_or_else">>) # None
        THEN Emitted(lint_map_unwrap_or_else(expr, chain(<<"map", "unwrap_or_else">>)[1],
                                             chain(<<"map", "unwrap_or_else">>)[2]))
        ELSE IF chain(<<"filter", "next">>) # None
        THEN lint_filter_next(expr, chain(<<"filter", "next">>)[1])
        ELSE IF chain(<<"find", "is_some">>) # None
        THEN lint_search_is_some(expr, "find", chain(<<"find", "is_some">>)[1],
                                 chain(<<"find", "is_some">>)[2])
        ELSE IF chain(<<"position", "is_some">>) # None
        THEN lint_search_is_some(expr, "position", chain(<<"position", "is_some">>)[1],
                                 chain(<<"position", "is_some">>)[2])
        ELSE IF chain(<<"rposition", "is_some">>) # None
        THEN lint_search_is_some(expr, "rposition", chain(<<"rposition", "is_some">>)[1],
                                 chain(<<"rposition", "is_some">>)[2])
        ELSE Emitted(<<>>)

\* Lines 215-240: MethodsPass::check_expr.
MethodsPass_check_expr(expr) ==
    IF expr.node.kind = "ExprMethodCall"
    THEN LET c == chain_lints(expr)
         IN  IF c.panicked THEN c
             ELSE Emitted(c.diags \o lint_or_fun_call(expr, expr.node.name, expr.node.args))
    ELSE Emitted(<<>>)

\* ---- the expressions of the programs
\* References of the receiver of to_string and unwrap: up to MaxDepth.
MaxDepth == 2

Span(at, expn_id, snip) == [at |-> at, expn_id |-> expn_id, snippet |-> snip]
ExprMethodCall(name, args, span, ty, callee_trait) ==
    [node |-> [kind |-> "ExprMethodCall", name |-> name, args |-> args],
     span |-> span, ty |-> ty, callee_trait |-> callee_trait]
ExprCall(fun, args, span, ty) ==
    [node |-> [kind |-> "ExprCall", fun |-> fun, args |-> args],
     span |-> span, ty |-> ty, callee_trait |-> None]
ExprPath(segments, span, ty) ==
    [node |-> [kind |-> "ExprPath", segments |-> segments],
     span |-> span, ty |-> ty, callee_trait |-> None]
ExprClosure(span, ty) ==
    [node |-> [kind |-> "ExprClosure"], span |-> span, ty |-> ty, callee_trait |-> None]
ExprLit(span, ty) ==
    [node |-> [kind |-> "ExprLit"], span |-> span, ty |-> ty, callee_trait |-> None]

\* The types of the tests: i32, Vec<i32> and String implement Default, Foo
\* does not; slice::Iter is an iterator; MyError has no Debug, MyErrorWithParam<T> a Debug impl with a
\* type parameter, io::Error a Debug impl without.
TyI32 == [sty |-> "TyInt", path |-> <<>>, substs |-> <<>>,
          impls |-> {TraitImplOf(DEFAULT_TRAIT_PATH, FALSE), TraitImplOf(DEBUG_TRAIT_PATH, FALSE)}]
TyClosure == [sty |-> "TyClosure", path |-> <<>>, substs |-> <<>>, impls |-> {}]
TyVec == TyStruct(<<"collections", "vec", "Vec">>, <<TyI32>>,
                  {TraitImplOf(DEFAULT_TRAIT_PATH, TRUE)})
TyString == TyStruct(STRING_PATH, <<>>, {TraitImplOf(DEFAULT_TRAIT_PATH, FALSE)})
TyFoo == TyStruct(<<"Foo">>, <<>>, {})
TyIter == TyStruct(<<"core", "slice", "Iter">>, <<TyI32>>,
                   {TraitImplOf(ITERATOR_PATH, TRUE)})
TyMyError == TyStruct(<<"MyError">>, <<>>, {})
TyMyErrorWithParam ==
    TyStruct(<<"MyErrorWithParam">>, <<TyI32>>, {TraitImplOf(DEBUG_TRAIT_PATH, TRUE)})
TyIoError == TyStruct(<<"std", "io", "Error">>, <<>>, {TraitImplOf(DEBUG_TRAIT_PATH, FALSE)})
TyOption == TyEnum(OPTION_PATH, <<TyI32>>, {TraitImplOf(DEFAULT_TRAIT_PATH, TRUE)})
TyResult(err) == TyEnum(RESULT_PATH, <<TyI32, err>>, {})

RECURSIVE Refs(_, _)
Refs(ty, d) == IF d = 0 THEN ty ELSE TyRef(Refs(ty, d - 1))

\* The text of a span: one line, or three.
OneLine(text) == <<text>>

\* `v.NAME()`: v a variable of a type under 0 .. MaxDepth references.
SimpleCalls ==
    {ExprMethodCall(name,
                    <<ExprPath(<<"v">>, Span("recv", 0, snip), Refs(ty, d))>>,
                    Span("call", 0, <<OneLine("v." \o name \o "()")>>), TyString, None) :
        name \in {"unwrap", "to_string", "len"},
        snip \in {None, <<OneLine("v")>>},
        ty \in {TyStr, TyString, TyOption, TyResult(TyIoError), TyFoo},
        d \in 0 .. MaxDepth}

\* `fun()` and `fun(12)`, of a type with Default or without; the callee
\* is a path or a closure.
ArgCalls ==
    LET Callees ==
            {ExprPath(segments, Span("fun", 0, <<OneLine(join(segments, "::"))>>),
                      TyClosure) :
                segments \in {<<"Vec", "new">>, <<"Default", "default">>, <<"make">>,
                              <<"Vec", "with_capacity">>}}
            \cup {ExprClosure(Span("fun", 0, <<OneLine("(|| x)")>>), TyClosure)}
    IN  {ExprCall(fun, or_args,
                  Span("arg", 0, <<OneLine(fun.span.snippet[1][1]
                                           \o (IF or_args = <<>> THEN "()" ELSE "(12)"))>>),
                  ty) :
            fun \in Callees,
            or_args \in {<<>>, <<ExprLit(Span("or_arg", 0, <<OneLine("12")>>), TyI32)>>},
            ty \in {TyVec, TyFoo}}

\* `recv.NAME(arg)` and `recv.NAME(arg, f)`.
OrCalls ==
    {ExprMethodCall(name,
                    <<ExprPath(<<"recv">>, Span("recv", 0, <<OneLine("recv")>>), recv_ty),
                      arg>> \o rest,
                    Span("call", 0, <<OneLine("recv." \o name \o "(..)")>>), TyVec, None) :
        name \in {"map_or", "ok_or", "or", "unwrap_or", "unwrap_or_else", "get_or"},
        recv_ty \in {TyOption, TyResult(TyIoError), TyFoo, TyRef(TyOption)},
        arg \in ArgCalls \cup {ExprLit(Span("arg", 0, <<OneLine("0")>>), TyI32)},
        rest \in {<<>>, <<ExprClosure(Span("arg2", 0, <<OneLine("|x| x")>>), TyClosure)>>}}

\* The argument of a method of a chain: none, or a closure or a literal
\* written on one line or on three, in the call's own code (expn_id 0) or
\* in the expansion of a macro (expn_id 1).
ChainArgs(at) ==
    {<<>>} \cup
    {<<ExprClosure(Span(at, expn_id, <<text>>), TyClosure)>> :
        expn_id \in {0, 1}, text \in {OneLine("|x| x + 1"), <<"|x| {", "    body", "}">>}}

Searches == {"find", "position", "rposition"}

\* `recv.INNER(a).OUTER(b)`.
ChainCall(recv_ty, inner, a, inner_trait, inner_ty, outer, b, outer_trait) ==
    ExprMethodCall(outer,
        <<ExprMethodCall(inner,
              <<ExprPath(<<"recv">>, Span("recv", 0, <<OneLine("recv")>>), recv_ty)>> \o a,
              Span("inner", 0, <<OneLine("recv." \o inner \o "(..)")>>),
              inner_ty, inner_trait)>> \o b,
        Span("call", 0, <<OneLine("recv." \o inner \o "(..)." \o outer \o "(..)")>>),
        TyI32, outer_trait)

\* What the type checker allows: the methods of Iterator, Option and Result
\* have their arities and their return types; a method of the chains is a
\* method of Iterator exactly when it is map, filter or a search called on
\* an iterator, or next called on one (an iterator adaptor is an iterator).
\* Foo is no iterator: its methods are inherent and of any arity and type.
WellTyped(recv_ty, inner, a, inner_trait, inner_ty, outer, b, outer_trait) ==
    /\ recv_ty = TyIter => inner \in {"map", "filter"} \cup Searches
    /\ inner_trait # None <=> recv_ty = TyIter
    /\ inner_trait # None =>
          a # <<>> /\ inner_ty = (IF inner \in Searches THEN TyOption ELSE TyIter)
    /\ inner_ty = TyIter => outer = "next"
    /\ outer_trait # None <=> inner_ty = TyIter
    /\ outer_trait # None => b = <<>>
    /\ (recv_ty = TyOption /\ inner = "map") =>
          a # <<>> /\ inner_trait = None /\ inner_ty = TyOption
    /\ (match_type(recv_ty, RESULT_PATH) /\ inner = "ok") =>
          a = <<>> /\ inner_trait = None /\ inner_ty = TyOption
    /\ inner_ty = TyOption =>
          /\ outer \in {"expect", "unwrap_or", "unwrap_or_else"} => b # <<>>
          /\ outer \in {"is_some", "unwrap"} => b = <<>>

ChainCalls ==
    {ChainCall(c[1], c[2], c[3], c[4], c[5], c[6], c[7], c[8]) :
        c \in {x \in {TyOption, TyResult(TyMyError), TyResult(TyMyErrorWithParam),
                      TyResult(TyIoError), TyFoo, TyIter}
                     \X {"ok", "map", "filter", "find", "position", "rposition"}
                     \X ChainArgs("inner_arg")
                     \X {None, <<ITERATOR_PATH>>} \X {TyOption, TyFoo, TyIter}
                     \X {"expect", "unwrap_or", "unwrap_or_else", "next", "is_some",
                         "unwrap", "to_string"}
                     \X (ChainArgs("arg") \cup
                         {<<ExprCall(ExprPath(<<"make">>, Span("fun", 0, <<OneLine("make")>>),
                                              TyClosure),
                                     <<>>, Span("arg", 0, <<OneLine("make()")>>), TyVec)>>})
                     \X {None, <<ITERATOR_PATH>>} :
                WellTyped(x[1], x[2], x[3], x[4], x[5], x[6], x[7], x[8])}}

\* The expressions of an expression, the expression first: the order in
\* which the lint framework walks them.
RECURSIVE PreOrder(_)
RECURSIVE PreOrderAll(_)
PreOrderAll(exprs) ==
    IF exprs = <<>> THEN <<>> ELSE PreOrder(Head(exprs)) \o PreOrderAll(Tail(exprs))
PreOrder(expr) ==
    <<expr>> \o
    (CASE expr.node.kind = "ExprMethodCall" -> PreOrderAll(expr.node.args)
       [] expr.node.kind = "ExprCall" -> PreOrderAll(<<expr.node.fun>> \o expr.node.args)
       [] OTHER -> <<>>)

\* --------------------------------------------------------- SpecCall
\* One statement `let _ = expr;` with a method call or a chain of two.
InitCall ==
    /\ \E expr \in SimpleCalls \cup OrCalls \cup ChainCalls :
          /\ ast = <<expr>>
          /\ todo = PreOrder(expr)
    /\ diags = <<>> /\ log = <<>> /\ collide = FALSE
    /\ len = 0 /\ hashOf = <<>> /\ eqOf = <<>> /\ st = search_frame

\* The lint framework calls check_expr on the next expression (lines
\* 215-240); a panic of the lint ends the compilation.
CheckCall ==
    /\ todo # <<>>
    /\ LET expr == Head(todo)
           out == MethodsPass_check_expr(expr)
       IN  IF out.panicked
           THEN /\ log' = log \o Tagged(expr.span.at, <<[op |-> "panic"]>>)
                /\ todo' = <<>>
                /\ UNCHANGED diags
           ELSE /\ diags' = diags \o Tagged(expr.span.at, out.diags)
                /\ log' = log \o Tagged(expr.span.at, <<[op |-> "check_expr"]>>)
                /\ todo' = Tail(todo)
    /\ UNCHANGED <<ast, collide>>
    /\ UNCHANGED searchVars

SpecCall == InitCall /\ [][CheckCall]_vars

\* ----------------------------------------- properties of SpecCall
\* The statement's expression, and the diagnostics of a lint on it.
TopCall == ast[1]
CallDiags(lints) ==
    {k \in DOMAIN diags : diags[k].visit = "call" /\ diags[k].entry.lint \in lints}
IsMethodCall(e, name) == e.node.kind = "ExprMethodCall" /\ e.node.name = name
\* e is `x.inner(..).outer(..)`.
IsChain(e, inner, outer) == IsMethodCall(e, outer) /\ IsMethodCall(e.node.args[1], inner)
TextOf(e) == IF e.span.snippet = None THEN "" ELSE join(e.span.snippet[1], "\n")
SingleLine(e) == e.span.snippet # None /\ Len(e.span.snippet[1]) <= 1
HasNote(k) == "note" \in DOMAIN diags[k].entry
IsOption(e) == e.ty.sty = "TyEnum" /\ e.ty.path = <<"core", "option", "Option">>
IsResult(e) == e.ty.sty = "TyEnum" /\ e.ty.path = <<"core", "result", "Result">>

\* e is `recv.NAME(arg)` with NAME one of the four names and arg a call.
IsOrFunCall(e) ==
    /\ e.node.kind = "ExprMethodCall"
    /\ e.node.name \in {"map_or", "ok_or", "or", "unwrap_or"}
    /\ Len(e.node.args) = 2
    /\ e.node.args[2].node.kind = "ExprCall"

\* The argument is `T::default()` or `T::new()`, of a type with Default.
IsDefaultCall(arg) ==
    /\ arg.node.args = <<>>
    /\ arg.node.fun.node.kind = "ExprPath"
    /\ \E segs \in {arg.node.fun.node.segments} : segs[Len(segs)] \in {"default", "new"}
    /\ \E i \in arg.ty.impls : i.trait = <<"core", "default", "Default">>

\* Exactly one OR_FUN_CALL diagnostic, with this suggestion.
OrFunCallSuggests(text) ==
    /\ Cardinality(CallDiags({"OR_FUN_CALL"})) = 1
    /\ \A k \in CallDiags({"OR_FUN_CALL"}) : diags[k].entry.suggestion = text

\* C17: a method call gets at most one OR_FUN_CALL diagnostic.  For
\* `recv.NAME(arg)` with NAME one of map_or, ok_or, or, unwrap_or and arg a
\* call: if NAME is unwrap_or, the call has no arguments, its path ends in
\* default or new and its type implements Default, the suggestion is
\* `recv.unwrap_or_default()`; otherwise it is `recv.NAME_else(|_| arg)` for a
\* Result, `recv.NAME_else(|| arg)` for an Option and a call with arguments,
\* `recv.NAME_else(callee)` for an Option and a call without; for another
\* receiver nothing is emitted.
C17_OrFunCallSuggestion ==
    TraversalDone =>
        /\ Cardinality(CallDiags({"OR_FUN_CALL"})) <= 1
        /\ IsOrFunCall(TopCall) =>
            LET name == TopCall.node.name
                recv == TopCall.node.args[1]
                arg == TopCall.node.args[2]
                else_with(sugg) == TextOf(recv) \o "." \o name \o "_else(" \o sugg \o ")"
            IN  IF name = "unwrap_or" /\ IsDefaultCall(arg)
                THEN OrFunCallSuggests(TextOf(recv) \o ".unwrap_or_default()")
                ELSE IF IsResult(recv)
                THEN OrFunCallSuggests(else_with("|_| " \o TextOf(arg)))
                ELSE IF IsOption(recv) /\ arg.node.args # <<>>
                THEN OrFunCallSuggests(else_with("|| " \o TextOf(arg)))
                ELSE IF IsOption(recv)
                THEN OrFunCallSuggests(else_with(TextOf(arg.node.fun)))
                ELSE CallDiags({"OR_FUN_CALL"}) = {}

\* C17's case: `recv.unwrap_or(Vec::new())` on an Option has been checked:
\* the one diagnostic suggests unwrap_or_default, not unwrap_or_else.
C17_Witness ==
    /\ TraversalDone
    /\ IsOrFunCall(TopCall) /\ TopCall.node.name = "unwrap_or"
    /\ IsOption(TopCall.node.args[1])
    /\ IsDefaultCall(TopCall.node.args[2])
    /\ TextOf(TopCall.node.args[2]) = "Vec::new()"
    /\ OrFunCallSuggests("recv.unwrap_or_default()")

\* `x.map(f).unwrap_or(a)`, `x.map(f).unwrap_or_else(g)` and their lints.
MapChains ==
    {<<"unwrap_or", "OPTION_MAP_UNWRAP_OR">>,
     <<"unwrap_or_else", "OPTION_MAP_UNWRAP_OR_ELSE">>}
MapLints == {c[2] : c \in MapChains}

\* C18: `x.map(f).unwrap_or(a)` has an OPTION_MAP_UNWRAP_OR diagnostic, and
\* `x.map(f).unwrap_or_else(g)` an OPTION_MAP_UNWRAP_OR_ELSE diagnostic, if
\* and only if x is an Option and the two arguments have the same
\* macro-expansion id; it is then the only diagnostic of the two lints, and
\* it has the `replace .. with ..` note if and only if the text of both
\* arguments is a single line.
C18_MapUnwrapOr ==
    TraversalDone =>
        \A c \in MapChains :
            IsChain(TopCall, "map", c[1]) =>
                LET map_call == TopCall.node.args[1]
                    linted == /\ IsOption(map_call.node.args[1])
                              /\ map_call.node.args[2].span.expn_id
                                    = TopCall.node.args[2].span.expn_id
                IN  /\ CallDiags({c[2]}) # {} <=> linted
                    /\ Cardinality(CallDiags(MapLints)) <= 1
                    /\ CallDiags(MapLints) = CallDiags({c[2]})
                    /\ \A k \in CallDiags({c[2]}) :
                          HasNote(k) <=> (/\ SingleLine(map_call.node.args[2])
                                          /\ SingleLine(TopCall.node.args[2]))

\* C18's case: an Option, `map(|x| x + 1)` on one line and the argument of
\* unwrap_or on three, written in the same code: one diagnostic, no note.
C18_Witness ==
    /\ TraversalDone
    /\ IsChain(TopCall, "map", "unwrap_or")
    /\ IsOption(TopCall.node.args[1].node.args[1])
    /\ SingleLine(TopCall.node.args[1].node.args[2])
    /\ Len(TopCall.node.args) = 2 /\ ~SingleLine(TopCall.node.args[2])
    /\ Cardinality(CallDiags({"OPTION_MAP_UNWRAP_OR"})) = 1
    /\ \A k \in CallDiags({"OPTION_MAP_UNWRAP_OR"}) : ~HasNote(k)

\* `x.filter(p).next()`, `x.find(p).is_some()`, .. and their lints.
IteratorChains ==
    {<<"filter", "next", "FILTER_NEXT">>,
     <<"find", "is_some", "SEARCH_IS_SOME">>,
     <<"position", "is_some", "SEARCH_IS_SOME">>,
     <<"rposition", "is_some", "SEARCH_IS_SOME">>}
IsIteratorMethod(e) == e.callee_trait = <<<<"core", "iter", "Iterator">>>>

\* C19: `x.filter(p).next()` has a FILTER_NEXT diagnostic, and
\* `x.find(p).is_some()`, `x.position(p).is_some()` and
\* `x.rposition(p).is_some()` have a SEARCH_IS_SOME diagnostic, if and only
\* if filter, find, position or rposition is the method of the Iterator
\* trait: an inherent method of that name on a type that is no iterator is
\* never linted.  The diagnostic is the only one of the two lints, and has
\* the note with the replacement if and only if the text of the predicate is
\* a single line.
C19_IteratorChains ==
    TraversalDone =>
        \A c \in IteratorChains :
            IsChain(TopCall, c[1], c[2]) =>
                LET searched == TopCall.node.args[1]
                IN  /\ CallDiags({c[3]}) # {} <=> IsIteratorMethod(searched)
                    /\ Cardinality(CallDiags({"FILTER_NEXT", "SEARCH_IS_SOME"})) <= 1
                    /\ \A k \in CallDiags({c[3]}) :
                          HasNote(k) <=> SingleLine(searched.node.args[2])

\* The type under the references of a type, and their number.
RECURSIVE Stripped(_)
Stripped(ty) == IF ty.sty = "TyRef" THEN Stripped(ty.ty) ELSE ty
RECURSIVE RefLevels(_)
RefLevels(ty) == IF ty.sty = "TyRef" THEN 1 + RefLevels(ty.ty) ELSE 0
Stars(n) == join([i \in 1 .. n |-> "*"], "")

\* The receiver text STR_TO_STRING suggests for x under d references.
SuggestedReceiver(x, d) ==
    LET text == IF x.span.snippet = None THEN "_" ELSE TextOf(x)
    IN  IF d > 1 THEN "(" \o Stars(d - 1) \o text \o ")" ELSE text

\* C20: `x.to_string()` where the type of x under its d references is str
\* has one diagnostic of the two lints, STR_TO_STRING, whose message
\* suggests the text of x after d - 1 stars and in parentheses when d > 1,
\* and the text of x as it is when d <= 1; where the type is String it has
\* one, STRING_TO_STRING; for another type it has none.
C20_ToString ==
    (TraversalDone /\ IsMethodCall(TopCall, "to_string")) =>
            LET x == TopCall.node.args[1]
                ty == Stripped(x.ty)
                both == CallDiags({"STR_TO_STRING", "STRING_TO_STRING"})
            IN  IF ty.sty = "TyStr"
                THEN /\ Cardinality(both) = 1
                     /\ \A k \in both :
                           /\ diags[k].entry.lint = "STR_TO_STRING"
                           /\ diags[k].entry.msg =
                                SuggestedReceiver(x, RefLevels(x.ty)) \o ".to_owned() is faster"
                ELSE IF ty.sty = "TyStruct" /\ ty.path = <<"collections", "string", "String">>
                THEN /\ Cardinality(both) = 1
                     /\ \A k \in both : diags[k].entry.lint = "STRING_TO_STRING"
                ELSE both = {}

\* C20's case: `v.to_string()` with v: &&str has been checked and the
\* message is the one of the test, with one star.
C20_Witness ==
    /\ TraversalDone
    /\ IsMethodCall(TopCall, "to_string")
    /\ TopCall.node.args[1].ty = TyRef(TyRef(TyStr))
    /\ \E k \in CallDiags({"STR_TO_STRING"}) :
          diags[k].entry.msg = "(*v).to_owned() is faster"

\* C29: every lint under which MethodsPass emits a diagnostic is in the
\* array MethodsPass::get_lints returns.
C29_EmittedLintsRegistered ==
    \A k \in DOMAIN diags : diags[k].entry.lint \in get_lints

\* The lints of the method chains of check_expr (lines 218-236).
ChainLints ==
    {"OPTION_UNWRAP_USED", "RESULT_UNWRAP_USED", "STR_TO_STRING", "STRING_TO_STRING",
     "OK_EXPECT", "OPTION_MAP_UNWRAP_OR", "OPTION_MAP_UNWRAP_OR_ELSE", "FILTER_NEXT",
     "SEARCH_IS_SOME"}

\* C30: an OR_FUN_CALL diagnostic is emitted only for a method call with one
\* argument besides the receiver, named map_or, ok_or, or, or unwrap_or, whose
\* argument is a call; `recv.map_or(make(), f)` gets none; and for such a
\* call on an Option or a Result (or with a Default argument) it is emitted
\* whether or not a chain lint was emitted for the same expression, of which
\* there is at most one.
C30_OrFunCallConsidered ==
    /\ \A k \in DOMAIN diags :
          diags[k].entry.lint = "OR_FUN_CALL" => diags[k].visit = "call" /\ IsOrFunCall(TopCall)
    /\ (IsMethodCall(TopCall, "map_or") /\ Len(TopCall.node.args) = 3)
          => CallDiags({"OR_FUN_CALL"}) = {}
    /\ Cardinality(CallDiags(ChainLints)) <= 1
    /\ (TraversalDone /\ IsOrFunCall(TopCall))
          => LET recv == TopCall.node.args[1]
                 arg == TopCall.node.args[2]
             IN  Cardinality(CallDiags({"OR_FUN_CALL"})) =
                    (IF \/ TopCall.node.name = "unwrap_or" /\ IsDefaultCall(arg)
                        \/ IsOption(recv) \/ IsResult(recv)
                     THEN 1 ELSE 0)

\* C30's case: `recv.map(|x| x + 1).unwrap_or(make())` on an Option has one
\* OPTION_MAP_UNWRAP_OR diagnostic and one OR_FUN_CALL diagnostic.
C30_Witness ==
    /\ TraversalDone
    /\ IsChain(TopCall, "map", "unwrap_or") /\ IsOrFunCall(TopCall)
    /\ Cardinality(CallDiags({"OPTION_MAP_UNWRAP_OR"})) = 1
    /\ Cardinality(CallDiags({"OR_FUN_CALL"})) = 1
    /\ Len(diags) = 2

====
